---- MODULE Spec2Model ----
(***************************************************************************)
(* A model of the in-memory virtual file system of uigen                   *)
(* (class VirtualFileSystem, lib/file-system.ts).                          *)
(*                                                                         *)
(* Strings are sequences of one-character strings, so that path           *)
(* normalisation, splitting and joining are computed character by         *)
(* character as the JavaScript code computes them.  The JavaScript heap   *)
(* is explicit: a FileNode is an object with an identity, the flat table  *)
(* `files` maps a path to an object, and a directory's `children` maps a  *)
(* name to an object, so the two indices can disagree in the model        *)
(* exactly when they can disagree in the program.                          *)
(***************************************************************************)
EXTENDS Integers, Sequences, FiniteSets, TLC

\* files, heap, root: the instance (this.files, the objects, this.root);
\* raised: an exception has left an operation; out: the argument and the
\* result of the last call of a helper that is exercised on its own
VARIABLES files, heap, root, raised, out

vars == <<files, heap, root, raised, out>>

-----------------------------------------------------------------------------
(* Bounds                                                                  *)

\* largest number of live FileNode objects (the root included)
MaxNodes == 3

\* depth of nested updateChildrenPaths frames at which the engine's call
\* stack is exhausted (RangeError); larger than any acyclic tree of MaxNodes
MaxStack == 7

\* longest input string of the normalizePath specification
MaxLen == 5

\* longest file content kept in the tree
MaxContent == 1

\* largest number of keys of a record handed to deserialize
MaxData == 2

\* longest file content of the text editor specification
MaxText == 4

\* longest old text handed to replaceInFile in the text editor specification
MaxOld == 2

\* largest line number, and smallest negated, handed to insertInFile and
\* viewFile in the text editor specification
MaxLine == 6

\* largest number of files of a snapshot handed to createImportMap
MaxFiles == 2

\* largest number of import statements in the files of a snapshot
MaxImports == 1

\* largest number of entries of an error list handed to createPreviewHTML
MaxErrors == 2

-----------------------------------------------------------------------------
(* Strings                                                                 *)

SLASH == "/"

NL == "\n"

\* the characters of path strings
PathChars == {"/", "a", "b"}

\* UTF-16 code units, the order Array.prototype.sort() compares by
CodeUnit(c) ==
  CASE c = "\n" -> 10
    [] c = "/" -> 47
    [] c = "a" -> 97
    [] c = "b" -> 98
    [] c = "x" -> 120
    [] OTHER -> 0

\* s < t in the default sort order of strings
RECURSIVE StrLess(_, _)
StrLess(s, t) ==
  IF t = <<>> THEN FALSE
  ELSE IF s = <<>> THEN TRUE
  ELSE IF s[1] = t[1] THEN StrLess(Tail(s), Tail(t))
  ELSE CodeUnit(s[1]) < CodeUnit(t[1])

startsWith(s, pre) ==
  Len(s) >= Len(pre) /\ SubSeq(s, 1, Len(pre)) = pre

endsWith(s, suf) ==
  Len(s) >= Len(suf) /\ SubSeq(s, Len(s) - Len(suf) + 1, Len(s)) = suf

\* index of the first occurrence of sep in s at or after position from; 0 if none
RECURSIVE indexOfFrom(_, _, _)
indexOfFrom(s, sep, from) ==
  IF from + Len(sep) - 1 > Len(s) THEN 0
  ELSE IF SubSeq(s, from, from + Len(sep) - 1) = sep THEN from
  ELSE indexOfFrom(s, sep, from + 1)

includes(s, sub) == indexOfFrom(s, sub, 1) # 0

\* String.prototype.split(sep) for a non-empty separator
RECURSIVE split(_, _)
split(s, sep) ==
  LET i == indexOfFrom(s, sep, 1) IN
  IF i = 0 THEN <<s>>
  ELSE <<SubSeq(s, 1, i - 1)>> \o split(SubSeq(s, i + Len(sep), Len(s)), sep)

\* Array.prototype.join(sep)
RECURSIVE join(_, _)
join(parts, sep) ==
  IF parts = <<>> THEN <<>>
  ELSE IF Len(parts) = 1 THEN parts[1]
  ELSE parts[1] \o sep \o join(Tail(parts), sep)

\* Array.prototype.filter(Boolean) on an array of strings
filterBoolean(parts) == SelectSeq(parts, LAMBDA x : x # <<>>)

\* path.replace(/\/+/g, "/")
RECURSIVE collapseSlashes(_)
collapseSlashes(s) ==
  IF Len(s) < 2 THEN s
  ELSE IF s[1] = SLASH /\ s[2] = SLASH THEN collapseSlashes(Tail(s))
  ELSE <<s[1]>> \o collapseSlashes(Tail(s))

\* all strings over the alphabet cs of length at most n
RECURSIVE StringsUpTo(_, _)
StringsUpTo(cs, n) ==
  IF n = 0 THEN {<<>>}
  ELSE LET shorter == StringsUpTo(cs, n - 1) IN
       shorter \cup {Append(s, c) : s \in shorter, c \in cs}

-----------------------------------------------------------------------------
(* Path helpers of VirtualFileSystem                                       *)

ROOT == <<"/">>

normalizePath(path) ==
  LET p1 == IF ~startsWith(path, <<SLASH>>) THEN <<SLASH>> \o path ELSE path
      p2 == IF p1 # ROOT /\ endsWith(p1, <<SLASH>>)
            THEN SubSeq(p1, 1, Len(p1) - 1) ELSE p1
  IN collapseSlashes(p2)

getParentPath(path) ==
  LET normalized == normalizePath(path) IN
  IF normalized = ROOT THEN ROOT
  ELSE LET parts == split(normalized, <<SLASH>>)
           popped == SubSeq(parts, 1, Len(parts) - 1)
       IN IF Len(popped) = 1 THEN ROOT ELSE join(popped, <<SLASH>>)

getFileName(path) ==
  LET normalized == normalizePath(path) IN
  IF normalized = ROOT THEN ROOT
  ELSE LET parts == split(normalized, <<SLASH>>) IN parts[Len(parts)]

-----------------------------------------------------------------------------
(* The heap: Map objects and FileNode objects                              *)

\* the JavaScript null
NULL == -1

\* Map.prototype.set on an insertion-ordered name -> object map
mapSet(m, k, v) ==
  IF \E i \in 1..Len(m) : m[i].name = k
  THEN [i \in 1..Len(m) |-> IF m[i].name = k THEN [name |-> k, id |-> v] ELSE m[i]]
  ELSE Append(m, [name |-> k, id |-> v])

\* Map.prototype.delete
mapDelete(m, k) == SelectSeq(m, LAMBDA e : e.name # k)

\* Map.prototype.has
mapHas(m, k) == \E i \in 1..Len(m) : m[i].name = k

\* Map.prototype.get (NULL for undefined)
mapGet(m, k) ==
  IF mapHas(m, k) THEN m[CHOOSE i \in 1..Len(m) : m[i].name = k].id ELSE NULL

\* this.files.set / this.files.delete / this.files.get on the flat table
filesSet(f, k, v) == [x \in (DOMAIN f) \cup {k} |-> IF x = k THEN v ELSE f[x]]

filesDelete(f, k) == [x \in (DOMAIN f) \ {k} |-> f[x]]

filesGet(f, k) == IF k \in DOMAIN f THEN f[k] ELSE NULL

\* a new object gets the smallest identity not in use
newObject(h) ==
  CHOOSE i \in 0..Cardinality(DOMAIN h) :
    i \notin DOMAIN h /\ \A j \in 0..(i - 1) : j \in DOMAIN h

\* interface FileNode; an absent content or children field is the empty sequence
FileNode(type, name, path, content) ==
  [type |-> type, name |-> name, path |-> path, content |-> content, children |-> <<>>]

\* the object that `new VirtualFileSystem()` and reset() build
RootNode == FileNode("directory", ROOT, ROOT, <<>>)

EmptyFs == [files |-> (ROOT :> 0), heap |-> (0 :> RootNode), root |-> 0]

\* Object.keys(data).sort(), also the order used to enumerate the flat table
RECURSIVE sortedKeys(_)
sortedKeys(S) ==
  IF S = {} THEN <<>>
  ELSE LET m == CHOOSE x \in S : \A y \in S \ {x} : StrLess(x, y)
       IN <<m>> \o sortedKeys(S \ {m})

\* the objects reachable from the references in todo, each once, in depth-first
\* order
RECURSIVE reach(_, _, _)
reach(h, todo, seen) ==
  IF todo = <<>> THEN seen
  ELSE
    LET n == Head(todo) IN
    IF \E i \in 1..Len(seen) : seen[i] = n THEN reach(h, Tail(todo), seen)
    ELSE reach(h, [i \in 1..Len(h[n].children) |-> h[n].children[i].id] \o Tail(todo),
               Append(seen, n))

\* garbage collection: only the objects reachable from this.root and from the
\* flat table remain.  An object's identity is not observable, so the live
\* objects are renumbered in the order they are reached.
collect(fs) ==
  LET renumber(live) ==
        LET id == [n \in {live[i] : i \in 1..Len(live)} |->
                     (CHOOSE i \in 1..Len(live) : live[i] = n) - 1]
        IN [files |-> [k \in DOMAIN fs.files |-> id[fs.files[k]]],
            heap |-> [j \in 0..(Len(live) - 1) |->
                       [fs.heap[live[j + 1]] EXCEPT !.children =
                          [i \in 1..Len(@) |-> [name |-> @[i].name, id |-> id[@[i].id]]]]],
            root |-> id[fs.root]]
      keys == sortedKeys(DOMAIN fs.files)
      roots == <<fs.root>> \o [i \in 1..Len(keys) |-> fs.files[keys[i]]]
  IN CHOOSE g \in {renumber(live) : live \in {reach(fs.heap, roots, <<>>)}} : TRUE

-----------------------------------------------------------------------------
(* VirtualFileSystem: structural operations.  Each returns the instance    *)
(* after the call (fs), the returned value (ret) and the return statement  *)
(* it left by (at).  Bind(v, LAMBDA x : e) is e with x standing for the    *)
(* value of v, computed once, as a `const` of the code is.                 *)

Bind(v, F(_)) == CHOOSE y \in {F(x) : x \in {v}} : TRUE

exists(fs, path) == normalizePath(path) \in DOMAIN fs.files

getNode(fs, path) == filesGet(fs.files, normalizePath(path))

getParentNode(fs, path) == filesGet(fs.files, getParentPath(path))

\* createDirectory without the test that the parent is a directory
createDirectory_underFile(fs, path) ==
  Bind(normalizePath(path), LAMBDA normalized :
    IF normalized \in DOMAIN fs.files THEN [fs |-> fs, ret |-> NULL, at |-> "exists"]
    ELSE Bind(getParentNode(fs, normalized), LAMBDA parent :
      IF parent = NULL
      THEN [fs |-> fs, ret |-> NULL, at |-> "no parent"]
      ELSE
        LET dirName == getFileName(normalized)
            directory == newObject(fs.heap)
            h1 == (directory :> FileNode("directory", dirName, normalized, <<>>)) @@ fs.heap
            h2 == [h1 EXCEPT ![parent].children = mapSet(@, dirName, directory)]
        IN [fs |-> [fs EXCEPT !.files = filesSet(@, normalized, directory), !.heap = h2],
            ret |-> directory, at |-> "created"]))

createDirectory(fs, path) ==
  Bind(normalizePath(path), LAMBDA normalized :
    IF normalized \in DOMAIN fs.files THEN [fs |-> fs, ret |-> NULL, at |-> "exists"]
    ELSE Bind(getParentNode(fs, normalized), LAMBDA parent :
      IF parent = NULL \/ fs.heap[parent].type # "directory"
      THEN [fs |-> fs, ret |-> NULL, at |-> "no parent"]
      ELSE
        LET dirName == getFileName(normalized)
            directory == newObject(fs.heap)
            h1 == (directory :> FileNode("directory", dirName, normalized, <<>>)) @@ fs.heap
            h2 == [h1 EXCEPT ![parent].children = mapSet(@, dirName, directory)]
        IN [fs |-> [fs EXCEPT !.files = filesSet(@, normalized, directory), !.heap = h2],
            ret |-> directory, at |-> "created"]))

\* the loop `for (i = 0; i < n; i++) { currentPath += "/" + parts[i]; if
\* (!exists(currentPath)) createDirectory(currentPath) }`, from index i on
RECURSIVE createParents(_, _, _, _, _)
createParents(fs, parts, n, i, currentPath) ==
  IF i > n THEN fs
  ELSE
    Bind(currentPath \o <<SLASH>> \o parts[i], LAMBDA cur :
      Bind(IF ~exists(fs, cur) THEN createDirectory(fs, cur).fs ELSE fs, LAMBDA fs1 :
        createParents(fs1, parts, n, i + 1, cur)))

\* createFile without the test that the path already exists
createFile_overExisting(fs, path, content) ==
  Bind(normalizePath(path), LAMBDA normalized :
      Bind(filterBoolean(split(normalized, <<SLASH>>)), LAMBDA parts :
      Bind(createParents(fs, parts, Len(parts) - 1, 1, <<>>), LAMBDA fs1 :
      Bind(getParentNode(fs1, normalized), LAMBDA parent :
        IF parent = NULL \/ fs1.heap[parent].type # "directory"
        THEN [fs |-> fs1, ret |-> NULL, at |-> "no parent"]
        ELSE
          LET fileName == getFileName(normalized)
              file == newObject(fs1.heap)
              h1 == (file :> FileNode("file", fileName, normalized, content)) @@ fs1.heap
              h2 == [h1 EXCEPT ![parent].children = mapSet(@, fileName, file)]
          IN [fs |-> [fs1 EXCEPT !.files = filesSet(@, normalized, file), !.heap = h2],
              ret |-> file, at |-> "created"]))))

createFile(fs, path, content) ==
  Bind(normalizePath(path), LAMBDA normalized :
    IF normalized \in DOMAIN fs.files THEN [fs |-> fs, ret |-> NULL, at |-> "exists"]
    ELSE
      Bind(filterBoolean(split(normalized, <<SLASH>>)), LAMBDA parts :
      Bind(createParents(fs, parts, Len(parts) - 1, 1, <<>>), LAMBDA fs1 :
      Bind(getParentNode(fs1, normalized), LAMBDA parent :
        IF parent = NULL \/ fs1.heap[parent].type # "directory"
        THEN [fs |-> fs1, ret |-> NULL, at |-> "no parent"]
        ELSE
          LET fileName == getFileName(normalized)
              file == newObject(fs1.heap)
              h1 == (file :> FileNode("file", fileName, normalized, content)) @@ fs1.heap
              h2 == [h1 EXCEPT ![parent].children = mapSet(@, fileName, file)]
          IN [fs |-> [fs1 EXCEPT !.files = filesSet(@, normalized, file), !.heap = h2],
              ret |-> file, at |-> "created"]))))

\* the null that readFile returns: a value that is none of the model's strings
NOSTRING == <<"null">>

readFile(fs, path) ==
  Bind(filesGet(fs.files, normalizePath(path)), LAMBDA file :
    IF file = NULL \/ fs.heap[file].type # "file" THEN NOSTRING ELSE fs.heap[file].content)

updateFile(fs, path, content) ==
  Bind(filesGet(fs.files, normalizePath(path)), LAMBDA file :
    IF file = NULL \/ fs.heap[file].type # "file"
    THEN [fs |-> fs, ret |-> FALSE, at |-> "not a file"]
    ELSE [fs |-> [fs EXCEPT !.heap[file].content = content], ret |-> TRUE, at |-> "updated"])

RECURSIVE deleteFile(_, _)
RECURSIVE deleteChildren(_, _, _, _)

\* `for (const [_, child] of file.children) this.deleteFile(child.path)`: the
\* iterator is live, so an entry deleted before it is reached is not visited
deleteChildren(fs, file, entries, i) ==
  IF i > Len(entries) THEN fs
  ELSE
    Bind(mapGet(fs.heap[file].children, entries[i].name), LAMBDA child :
      IF child = NULL THEN deleteChildren(fs, file, entries, i + 1)
      ELSE Bind(deleteFile(fs, fs.heap[child].path).fs, LAMBDA fs1 :
             deleteChildren(fs1, file, entries, i + 1)))

\* deleteFile without the test for the root
deleteFile_ofRoot(fs, path) ==
  Bind(normalizePath(path), LAMBDA normalized :
  Bind(filesGet(fs.files, normalized), LAMBDA file :
    IF file = NULL
    THEN [fs |-> fs, ret |-> FALSE, at |-> "missing"]
    ELSE Bind(getParentNode(fs, normalized), LAMBDA parent :
      IF parent = NULL \/ fs.heap[parent].type # "directory"
      THEN [fs |-> fs, ret |-> FALSE, at |-> "no parent"]
      ELSE
        Bind(IF fs.heap[file].type = "directory"
             THEN deleteChildren(fs, file, fs.heap[file].children, 1)
             ELSE fs, LAMBDA fs1 :
          LET h2 == [fs1.heap EXCEPT ![parent].children = mapDelete(@, fs1.heap[file].name)]
          IN [fs |-> [fs1 EXCEPT !.files = filesDelete(@, normalized), !.heap = h2],
              ret |-> TRUE, at |-> "deleted"]))))

deleteFile(fs, path) ==
  Bind(normalizePath(path), LAMBDA normalized :
  Bind(filesGet(fs.files, normalized), LAMBDA file :
    IF file = NULL \/ normalized = ROOT
    THEN [fs |-> fs, ret |-> FALSE, at |-> IF file = NULL THEN "missing" ELSE "root"]
    ELSE Bind(getParentNode(fs, normalized), LAMBDA parent :
      IF parent = NULL \/ fs.heap[parent].type # "directory"
      THEN [fs |-> fs, ret |-> FALSE, at |-> "no parent"]
      ELSE
        Bind(IF fs.heap[file].type = "directory"
             THEN deleteChildren(fs, file, fs.heap[file].children, 1)
             ELSE fs, LAMBDA fs1 :
          LET h2 == [fs1.heap EXCEPT ![parent].children = mapDelete(@, fs1.heap[file].name)]
          IN [fs |-> [fs1 EXCEPT !.files = filesDelete(@, normalized), !.heap = h2],
              ret |-> TRUE, at |-> "deleted"]))))

RECURSIVE updateChildrenPaths(_, _, _)
RECURSIVE updateChildren(_, _, _, _, _)

\* the loop of updateChildrenPaths over node.children from entry i on; node.path
\* and child.name are read from the objects as they are at that moment
updateChildren(fs, node, entries, i, depth) ==
  IF i > Len(entries) THEN [fs |-> fs, raised |-> FALSE]
  ELSE
    LET child == entries[i].id
        oldChildPath == fs.heap[child].path
        newChildPath == fs.heap[node].path \o <<SLASH>> \o fs.heap[child].name
        h1 == [fs.heap EXCEPT ![child].path = newChildPath]
        f1 == filesSet(filesDelete(fs.files, oldChildPath), newChildPath, child)
    IN Bind([fs EXCEPT !.files = f1, !.heap = h1], LAMBDA fs1 :
         Bind(IF fs1.heap[child].type = "directory"
              THEN updateChildrenPaths(fs1, child, depth + 1)
              ELSE [fs |-> fs1, raised |-> FALSE], LAMBDA r :
           IF r.raised THEN r ELSE updateChildren(r.fs, node, entries, i + 1, depth)))

\* a call nested deeper than the call stack allows raises a RangeError, which
\* leaves the objects as they are at that moment
updateChildrenPaths(fs, node, depth) ==
  IF depth > MaxStack THEN [fs |-> fs, raised |-> TRUE]
  ELSE IF fs.heap[node].type = "directory"
  THEN updateChildren(fs, node, fs.heap[node].children, 1, depth)
  ELSE [fs |-> fs, raised |-> FALSE]

\* the loop `for (const part of parts) { currentPath += "/" + part; ... }` of rename
renameParents(fs, newParentPath) ==
  IF ~exists(fs, newParentPath)
  THEN Bind(filterBoolean(split(newParentPath, <<SLASH>>)), LAMBDA parts :
         createParents(fs, parts, Len(parts), 1, <<>>))
  ELSE fs

\* rename from `// Remove from old parent` on
renameMove(fs1, sourceNode, oldParent, newParent, normalizedOld, normalizedNew) ==
  LET newName == getFileName(normalizedNew)
      h1 == [fs1.heap EXCEPT ![oldParent].children =
                                mapDelete(@, fs1.heap[sourceNode].name)]
      h2 == [h1 EXCEPT ![sourceNode].name = newName,
                       ![sourceNode].path = normalizedNew]
      h3 == [h2 EXCEPT ![newParent].children = mapSet(@, newName, sourceNode)]
      f1 == filesSet(filesDelete(fs1.files, normalizedOld), normalizedNew, sourceNode)
  IN Bind([fs1 EXCEPT !.files = f1, !.heap = h3], LAMBDA fs2 :
       Bind(IF fs2.heap[sourceNode].type = "directory"
            THEN updateChildrenPaths(fs2, sourceNode, 1)
            ELSE [fs |-> fs2, raised |-> FALSE], LAMBDA r :
         [fs |-> r.fs, ret |-> ~r.raised, raised |-> r.raised,
          at |-> IF r.raised THEN "RangeError" ELSE "renamed"]))

\* rename without the test that the destination already exists
rename_ontoExisting(fs, oldPath, newPath) ==
  Bind(normalizePath(oldPath), LAMBDA normalizedOld :
  Bind(normalizePath(newPath), LAMBDA normalizedNew :
    LET failed(at) == [fs |-> fs, ret |-> FALSE, raised |-> FALSE, at |-> at] IN
    IF normalizedOld = ROOT \/ normalizedNew = ROOT THEN failed("root")
    ELSE Bind(filesGet(fs.files, normalizedOld), LAMBDA sourceNode :
      IF sourceNode = NULL THEN failed("no source")
      ELSE Bind(getParentNode(fs, normalizedOld), LAMBDA oldParent :
        IF oldParent = NULL \/ fs.heap[oldParent].type # "directory"
        THEN failed("no old parent")
        ELSE
          Bind(renameParents(fs, getParentPath(normalizedNew)), LAMBDA fs1 :
          Bind(getParentNode(fs1, normalizedNew), LAMBDA newParent :
            IF newParent = NULL \/ fs1.heap[newParent].type # "directory"
            THEN [fs |-> fs1, ret |-> FALSE, raised |-> FALSE, at |-> "no new parent"]
            ELSE renameMove(fs1, sourceNode, oldParent, newParent,
                            normalizedOld, normalizedNew)))))))

rename(fs, oldPath, newPath) ==
  Bind(normalizePath(oldPath), LAMBDA normalizedOld :
  Bind(normalizePath(newPath), LAMBDA normalizedNew :
    LET failed(at) == [fs |-> fs, ret |-> FALSE, raised |-> FALSE, at |-> at] IN
    IF normalizedOld = ROOT \/ normalizedNew = ROOT THEN failed("root")
    ELSE Bind(filesGet(fs.files, normalizedOld), LAMBDA sourceNode :
      IF sourceNode = NULL THEN failed("no source")
      ELSE IF normalizedNew \in DOMAIN fs.files THEN failed("destination exists")
      ELSE Bind(getParentNode(fs, normalizedOld), LAMBDA oldParent :
        IF oldParent = NULL \/ fs.heap[oldParent].type # "directory"
        THEN failed("no old parent")
        ELSE
          Bind(renameParents(fs, getParentPath(normalizedNew)), LAMBDA fs1 :
          Bind(getParentNode(fs1, normalizedNew), LAMBDA newParent :
            IF newParent = NULL \/ fs1.heap[newParent].type # "directory"
            THEN [fs |-> fs1, ret |-> FALSE, raised |-> FALSE, at |-> "no new parent"]
            ELSE renameMove(fs1, sourceNode, oldParent, newParent,
                            normalizedOld, normalizedNew)))))))

listDirectory(fs, path) ==
  Bind(filesGet(fs.files, normalizePath(path)), LAMBDA dir :
    IF dir = NULL \/ fs.heap[dir].type # "directory" THEN NULL
    ELSE [i \in 1..Len(fs.heap[dir].children) |-> fs.heap[dir].children[i].id])

\* reset(): a new root object replaces this.root
reset(fs) == EmptyFs

-----------------------------------------------------------------------------
(* VirtualFileSystem: persistence                                          *)

\* this.files.clear(); this.root.children?.clear(); this.files.set("/", this.root)
clearFiles(fs) ==
  collect([fs EXCEPT !.files = (ROOT :> fs.root), !.heap[fs.root].children = <<>>])

\* data is a function from path strings to contents
RECURSIVE deserializeLoop(_, _, _, _)
deserializeLoop(fs, data, paths, i) ==
  IF i > Len(paths) THEN fs
  ELSE
    Bind(filterBoolean(split(paths[i], <<SLASH>>)), LAMBDA parts :
    Bind(createParents(fs, parts, Len(parts) - 1, 1, <<>>), LAMBDA fs1 :
    Bind(createFile(fs1, paths[i], data[paths[i]]).fs, LAMBDA fs2 :
      deserializeLoop(fs2, data, paths, i + 1))))

deserialize(fs, data) ==
  Bind(clearFiles(fs), LAMBDA fs0 :
  Bind(sortedKeys(DOMAIN data), LAMBDA paths :
    deserializeLoop(fs0, data, paths, 1)))

\* data is a function from path strings to [type, content] descriptors
RECURSIVE deserializeFromNodesLoop(_, _, _, _)
deserializeFromNodesLoop(fs, data, paths, i) ==
  IF i > Len(paths) THEN fs
  ELSE IF paths[i] = ROOT THEN deserializeFromNodesLoop(fs, data, paths, i + 1)
  ELSE
    LET path == paths[i]
        node == data[path]
    IN
    Bind(filterBoolean(split(path, <<SLASH>>)), LAMBDA parts :
    Bind(createParents(fs, parts, Len(parts) - 1, 1, <<>>), LAMBDA fs1 :
    Bind(IF node.type = "file" THEN createFile(fs1, path, node.content).fs
         ELSE IF node.type = "directory" THEN createDirectory(fs1, path).fs
         ELSE fs1, LAMBDA fs2 :
      deserializeFromNodesLoop(fs2, data, paths, i + 1))))

deserializeFromNodes(fs, data) ==
  Bind(clearFiles(fs), LAMBDA fs0 :
  Bind(sortedKeys(DOMAIN data), LAMBDA paths :
    deserializeFromNodesLoop(fs0, data, paths, 1)))

\* serialize(): path -> descriptor; a directory's descriptor has no content
\* and no children
serialize(fs) ==
  [k \in DOMAIN fs.files |->
     LET node == fs.heap[fs.files[k]] IN
     IF node.type = "directory"
     THEN [type |-> node.type, name |-> node.name, path |-> node.path]
     ELSE [type |-> node.type, name |-> node.name, path |-> node.path,
           content |-> node.content]]

-----------------------------------------------------------------------------
(* VirtualFileSystem: text editor commands.  A status string is modelled   *)
(* as a record of its fixed text and the values interpolated into it.      *)

\* createFileWithParents without the test that the path already exists
createFileWithParents_noExistsCheck(fs, path, content) ==
  Bind(filterBoolean(split(path, <<SLASH>>)), LAMBDA parts :
  Bind(createParents(fs, parts, Len(parts) - 1, 1, <<>>), LAMBDA fs1 :
    [fs |-> createFile(fs1, path, content).fs,
     ret |-> [msg |-> "File created", path |-> path]]))

createFileWithParents(fs, path, content) ==
  IF exists(fs, path)
  THEN [fs |-> fs, ret |-> [msg |-> "Error: File already exists", path |-> path]]
  ELSE
    Bind(filterBoolean(split(path, <<SLASH>>)), LAMBDA parts :
    Bind(createParents(fs, parts, Len(parts) - 1, 1, <<>>), LAMBDA fs1 :
      [fs |-> createFile(fs1, path, content).fs,
       ret |-> [msg |-> "File created", path |-> path]]))

\* the characters that oldStr.replace(/[.*+?^${}()|[\]\\]/g, "\\$&") escapes
SpecialChars == {".", "*", "+", "?", "^", "$", "{", "}", "(", ")", "|", "[", "]", "\\"}

\* oldStr.replace(/[.*+?^${}()|[\]\\]/g, "\\$&"): a backslash before each
\* special character
RECURSIVE escapeRegExp(_)
escapeRegExp(s) ==
  IF s = <<>> THEN <<>>
  ELSE (IF s[1] \in SpecialChars THEN <<"\\", s[1]>> ELSE <<s[1]>>) \o escapeRegExp(Tail(s))

\* new RegExp(source, "g") for a source made of ordinary characters, dots and
\* escaped characters: a dot matches any character but a line terminator, an
\* escaped character and an ordinary character match themselves
RECURSIVE RegExp(_)
RegExp(source) ==
  IF source = <<>> THEN <<>>
  ELSE IF source[1] = "\\" /\ Len(source) >= 2
  THEN <<[kind |-> "char", ch |-> source[2]]>> \o RegExp(SubSeq(source, 3, Len(source)))
  ELSE IF source[1] = "."
  THEN <<[kind |-> "any", ch |-> "."]>> \o RegExp(Tail(source))
  ELSE <<[kind |-> "char", ch |-> source[1]]>> \o RegExp(Tail(source))

\* the pattern matches s at position i
matchAt(s, re, i) ==
  /\ i + Len(re) - 1 <= Len(s)
  /\ \A j \in 1..Len(re) :
       IF re[j].kind = "any" THEN s[i + j - 1] # NL ELSE s[i + j - 1] = re[j].ch

\* (content.match(re) || []).length for a global pattern that matches no empty
\* string: the matches left to right, each search starting where the previous
\* match ended
RECURSIVE countMatches(_, _, _)
countMatches(s, re, from) ==
  IF from > Len(s) THEN 0
  ELSE IF matchAt(s, re, from) THEN 1 + countMatches(s, re, from + Len(re))
  ELSE countMatches(s, re, from + 1)

\* replaceInFile with a pattern built from oldStr as it is, not escaped
replaceInFile_unescaped(fs, path, oldStr, newStr) ==
  Bind(getNode(fs, path), LAMBDA file :
    IF file = NULL
    THEN [fs |-> fs, ret |-> [msg |-> "Error: File not found", path |-> path]]
    ELSE IF fs.heap[file].type # "file"
    THEN [fs |-> fs, ret |-> [msg |-> "Error: Cannot edit a directory", path |-> path]]
    ELSE
      Bind(readFile(fs, path), LAMBDA r :
        LET content == IF r = NOSTRING THEN <<>> ELSE r IN
        IF oldStr = <<>> \/ ~includes(content, oldStr)
        THEN [fs |-> fs, ret |-> [msg |-> "Error: String not found in file", str |-> oldStr]]
        ELSE
          LET occurrences == countMatches(content, RegExp(oldStr), 1)
              updatedContent == join(split(content, oldStr), newStr)
          IN [fs |-> updateFile(fs, path, updatedContent).fs,
              ret |-> [msg |-> "Replaced", n |-> occurrences, path |-> path]]))

replaceInFile(fs, path, oldStr, newStr) ==
  Bind(getNode(fs, path), LAMBDA file :
    IF file = NULL
    THEN [fs |-> fs, ret |-> [msg |-> "Error: File not found", path |-> path]]
    ELSE IF fs.heap[file].type # "file"
    THEN [fs |-> fs, ret |-> [msg |-> "Error: Cannot edit a directory", path |-> path]]
    ELSE
      Bind(readFile(fs, path), LAMBDA r :
        LET content == IF r = NOSTRING THEN <<>> ELSE r IN
        IF oldStr = <<>> \/ ~includes(content, oldStr)
        THEN [fs |-> fs, ret |-> [msg |-> "Error: String not found in file", str |-> oldStr]]
        ELSE
          LET occurrences == countMatches(content, RegExp(escapeRegExp(oldStr)), 1)
              updatedContent == join(split(content, oldStr), newStr)
          IN [fs |-> updateFile(fs, path, updatedContent).fs,
              ret |-> [msg |-> "Replaced", n |-> occurrences, path |-> path]]))

\* lines.splice(insertLine, 0, text)
splice(lines, at, text) ==
  SubSeq(lines, 1, at) \o <<text>> \o SubSeq(lines, at + 1, Len(lines))

\* insertInFile that refuses the line number after the last line
insertInFile_noAppend(fs, path, insertLine, text) ==
  Bind(getNode(fs, path), LAMBDA file :
    IF file = NULL
    THEN [fs |-> fs, ret |-> [msg |-> "Error: File not found", path |-> path]]
    ELSE IF fs.heap[file].type # "file"
    THEN [fs |-> fs, ret |-> [msg |-> "Error: Cannot edit a directory", path |-> path]]
    ELSE
      Bind(readFile(fs, path), LAMBDA r :
      Bind(split(IF r = NOSTRING THEN <<>> ELSE r, <<NL>>), LAMBDA lines :
        IF insertLine < 0 \/ insertLine >= Len(lines)
        THEN [fs |-> fs, ret |-> [msg |-> "Error: Invalid line number", line |-> insertLine,
                                  lines |-> Len(lines)]]
        ELSE
          LET updatedContent == join(splice(lines, insertLine, text), <<NL>>)
          IN [fs |-> updateFile(fs, path, updatedContent).fs,
              ret |-> [msg |-> "Text inserted", line |-> insertLine, path |-> path]])))

insertInFile(fs, path, insertLine, text) ==
  Bind(getNode(fs, path), LAMBDA file :
    IF file = NULL
    THEN [fs |-> fs, ret |-> [msg |-> "Error: File not found", path |-> path]]
    ELSE IF fs.heap[file].type # "file"
    THEN [fs |-> fs, ret |-> [msg |-> "Error: Cannot edit a directory", path |-> path]]
    ELSE
      Bind(readFile(fs, path), LAMBDA r :
      Bind(split(IF r = NOSTRING THEN <<>> ELSE r, <<NL>>), LAMBDA lines :
        IF insertLine < 0 \/ insertLine > Len(lines)
        THEN [fs |-> fs, ret |-> [msg |-> "Error: Invalid line number", line |-> insertLine,
                                  lines |-> Len(lines)]]
        ELSE
          LET updatedContent == join(splice(lines, insertLine, text), <<NL>>)
          IN [fs |-> updateFile(fs, path, updatedContent).fs,
              ret |-> [msg |-> "Text inserted", line |-> insertLine, path |-> path]])))

TAB == "\t"

\* the decimal digits
Digits == <<"0", "1", "2", "3", "4", "5", "6", "7", "8", "9">>

\* `${n}` for a non-negative integer
RECURSIVE toString(_)
toString(n) ==
  IF n < 10 THEN <<Digits[n + 1]>>
  ELSE toString(n \div 10) \o <<Digits[(n % 10) + 1]>>

\* Math.max and Math.min
max(a, b) == IF a >= b THEN a ELSE b

min(a, b) == IF a <= b THEN a ELSE b

\* Array.prototype.slice(begin, end): a negative index counts from the end of
\* the array, an index beyond the array is the array's length
slice(arr, begin, end) ==
  LET len == Len(arr)
      from == IF begin < 0 THEN max(len + begin, 0) ELSE min(begin, len)
      to == IF end < 0 THEN max(len + end, 0) ELSE min(end, len)
  IN IF from >= to THEN <<>> ELSE SubSeq(arr, from + 1, to)

\* lines.map((line, index) => `${first + index}\t${line}`)
numbered(lines, first) ==
  [index \in 1..Len(lines) |-> toString(first + index - 1) \o <<TAB>> \o lines[index]]

\* children.sort((a, b) => a.name.localeCompare(b.name)) for names of lower
\* case letters, which localeCompare orders as their code units do
RECURSIVE sortByName(_, _)
sortByName(h, ids) ==
  IF ids = {} THEN <<>>
  ELSE LET m == CHOOSE x \in ids : \A y \in ids \ {x} : ~StrLess(h[y].name, h[x].name)
       IN <<m>> \o sortByName(h, ids \ {m})

\* the viewRange argument when it is not given
NORANGE == <<>>

\* viewFile(path, viewRange); the returned text is in the field text.
\* listDirectory is not null here, the node being a directory
viewFile(fs, path, viewRange) ==
  Bind(getNode(fs, path), LAMBDA file :
    IF file = NULL THEN [msg |-> "File not found", path |-> path]
    ELSE IF fs.heap[file].type = "directory"
    THEN
      Bind(listDirectory(fs, path), LAMBDA children :
        IF Len(children) = 0 THEN [msg |-> "(empty directory)"]
        ELSE
          LET sorted == sortByName(fs.heap, {children[i] : i \in 1..Len(children)})
              entry(child) ==
                (IF fs.heap[child].type = "directory"
                 THEN <<"[", "D", "I", "R", "]">> ELSE <<"[", "F", "I", "L", "E", "]">>)
                \o <<" ">> \o fs.heap[child].name
          IN [msg |-> "listing",
              text |-> join([i \in 1..Len(sorted) |-> entry(sorted[i])], <<NL>>)])
    ELSE
      LET content == fs.heap[file].content
          lines == split(content, <<NL>>)
      IN IF viewRange # NORANGE /\ Len(viewRange) = 2
         THEN
           LET start == viewRange[1]
               end == viewRange[2]
               startLine == max(1, start)
               endLine == IF end = -1 THEN Len(lines) ELSE min(Len(lines), end)
               viewedLines == slice(lines, startLine - 1, endLine)
           IN [msg |-> "content", text |-> join(numbered(viewedLines, startLine), <<NL>>)]
         ELSE
           LET text == join(numbered(lines, 1), <<NL>>) IN
           IF text = <<>> THEN [msg |-> "(empty file)"]
           ELSE [msg |-> "content", text |-> text])

-----------------------------------------------------------------------------
(* lib/transform/jsx-transformer.ts.  The text of a file is modelled by     *)
(* what transformJSX reads from it: the message of the error Babel throws   *)
(* on it ("" when it compiles) and the specifiers of its import statements  *)
(* in the order of the text.  A URL is a record of its scheme, the serial   *)
(* number that makes an object URL unique, and what it stands for.  The     *)
(* `imports` object is a function from its own keys to URLs; every value    *)
(* stored is a non-empty string and no inherited property name starts with  *)
(* ".", "/" or "@", so `imports[k]` is truthy exactly for an own key k      *)
(* wherever the code tests a local specifier.                               *)

\* String.prototype.replace(pattern, by) for a string pattern: the first
\* occurrence only
replace(s, pattern, by) ==
  LET i == indexOfFrom(s, pattern, 1) IN
  IF i = 0 THEN s
  ELSE SubSeq(s, 1, i - 1) \o by \o SubSeq(s, i + Len(pattern), Len(s))

\* String.prototype.substring(start), start counted from 0
substring(s, start) == SubSeq(s, start + 1, Len(s))

\* String.prototype.lastIndexOf(c) counted from 1; 0 if none
lastIndexOf(s, c) ==
  IF \E i \in 1..Len(s) : s[i] = c
  THEN CHOOSE i \in 1..Len(s) : s[i] = c /\ \A j \in (i + 1)..Len(s) : s[j] # c
  ELSE 0

EXT_JS == <<".", "j", "s">>
EXT_JSX == <<".", "j", "s", "x">>
EXT_TS == <<".", "t", "s">>
EXT_TSX == <<".", "t", "s", "x">>
EXT_CSS == <<".", "c", "s", "s">>
AT_SLASH == <<"@", "/">>

\* the test of the first pass: the file is a script
isScript(path) ==
  endsWith(path, EXT_JS) \/ endsWith(path, EXT_JSX)
    \/ endsWith(path, EXT_TS) \/ endsWith(path, EXT_TSX)

\* path.replace(/\.(jsx?|tsx?)$/, "")
withoutExt(path) ==
  IF endsWith(path, EXT_JSX) \/ endsWith(path, EXT_TSX)
  THEN SubSeq(path, 1, Len(path) - 4)
  ELSE IF endsWith(path, EXT_JS) \/ endsWith(path, EXT_TS)
  THEN SubSeq(path, 1, Len(path) - 3)
  ELSE path

\* the characters [a-zA-Z0-9]
AlphaNumeric ==
  {"a", "b", "c", "d", "e", "f", "g", "h", "i", "j", "k", "l", "m",
   "n", "o", "p", "q", "r", "s", "t", "u", "v", "w", "x", "y", "z",
   "A", "B", "C", "D", "E", "F", "G", "H", "I", "J", "K", "L", "M",
   "N", "O", "P", "Q", "R", "S", "T", "U", "V", "W", "X", "Y", "Z",
   "0", "1", "2", "3", "4", "5", "6", "7", "8", "9"}

\* new Set(array): the elements in the order of their first occurrence
RECURSIVE toSet(_)
toSet(arr) ==
  IF arr = <<>> THEN <<>>
  ELSE LET front == toSet(SubSeq(arr, 1, Len(arr) - 1))
           x == arr[Len(arr)] IN
       IF \E i \in 1..Len(front) : front[i] = x THEN front ELSE Append(front, x)

\* Set.prototype.add
setAdd(set, x) ==
  IF \E i \in 1..Len(set) : set[i] = x THEN set ELSE Append(set, x)

\* imports[k] = v
objSet(o, k, v) == [x \in (DOMAIN o) \cup {k} |-> IF x = k THEN v ELSE o[x]]

\* k is an own key of the object
objHas(o, k) == k \in DOMAIN o

\* the URL of a package on the CDN: "https://esm.sh/" + rest
esmUrl(rest) == [scheme |-> "https", n |-> 0, of |-> <<"esm.sh", rest>>]

\* the object literal createImportMap starts from
coreImports ==
  LET r == <<"r", "e", "a", "c", "t">>
      d == r \o <<"-", "d", "o", "m">>
      at19 == <<"@", "1", "9">>
      jsx == <<"/", "j", "s", "x", "-">>
      rt == <<"r", "u", "n", "t", "i", "m", "e">> IN
  (r :> esmUrl(r \o at19))
    @@ (d :> esmUrl(d \o at19))
    @@ ((d \o <<"/", "c", "l", "i", "e", "n", "t">>)
          :> esmUrl(d \o at19 \o <<"/", "c", "l", "i", "e", "n", "t">>))
    @@ ((r \o jsx \o rt) :> esmUrl(r \o at19 \o jsx \o rt))
    @@ ((r \o jsx \o <<"d", "e", "v", "-">> \o rt)
          :> esmUrl(r \o at19 \o jsx \o <<"d", "e", "v", "-">> \o rt))

\* createPlaceholderModule: the code is determined by the component name
createPlaceholderModule(componentName) == <<"placeholder", componentName>>

\* createBlobURL: a fresh object URL for the code; n is the number of object
\* URLs created before
createBlobURL(code, n) == [scheme |-> "blob", n |-> n + 1, of |-> code]

\* transformJSX without its catch clause reporting the error
transformJSX_noError(code, filename, existingFiles) ==
  [code |-> <<"compiled", filename>>, error |-> "",
   missingImports |->
     toSet(SelectSeq(code.imports, LAMBDA s : ~endsWith(s, EXT_CSS))),
   cssImports |-> toSet(code.cssImports)]

\* transformJSX: the specifiers of the bare stylesheet imports, the
\* specifiers of the other import statements that do not end in ".css", then
\* Babel on the text; the code is determined by the file
transformJSX(code, filename, existingFiles) ==
  IF code.error # ""
  THEN [code |-> <<"", <<>>>>, error |-> code.error, missingImports |-> <<>>,
        cssImports |-> <<>>]
  ELSE [code |-> <<"compiled", filename>>, error |-> "",
        missingImports |->
          toSet(SelectSeq(code.imports, LAMBDA s : ~endsWith(s, EXT_CSS))),
        cssImports |-> toSet(code.cssImports)]

\* the test of both passes: the specifier names a third-party package
isPackage(imp) ==
  ~startsWith(imp, <<".">>) /\ ~startsWith(imp, <<"/">>)
    /\ ~startsWith(imp, AT_SLASH)

\* missingImports.forEach of the first pass, from the i-th specifier on
RECURSIVE collectImports(_, _, _)
collectImports(st, missing, i) ==
  IF i > Len(missing) THEN st
  ELSE LET imp == missing[i] IN
       collectImports(
         IF isPackage(imp)
         THEN [st EXCEPT !.imports = objSet(@, imp, esmUrl(imp))]
         ELSE [st EXCEPT !.allImports = setAdd(@, imp)],
         missing, i + 1)

\* the keys the first pass registers a compiled file under, in the order of
\* the assignments
keysOf(path) ==
  LET abs == startsWith(path, <<"/">>)
      pathWithoutExt == withoutExt(path) IN
  <<path>>
    \o (IF abs THEN <<substring(path, 1)>> ELSE <<>>)
    \o (IF abs THEN <<<<"@">> \o path, AT_SLASH \o substring(path, 1)>> ELSE <<>>)
    \o <<pathWithoutExt>>
    \o (IF abs
        THEN <<substring(pathWithoutExt, 1), <<"@">> \o pathWithoutExt,
               AT_SLASH \o substring(pathWithoutExt, 1)>>
        ELSE <<>>)

\* imports[k] = v for the keys from the i-th on
RECURSIVE objSetAll(_, _, _, _)
objSetAll(o, keys, i, v) ==
  IF i > Len(keys) THEN o ELSE objSetAll(objSet(o, keys[i], v), keys, i + 1, v)

\* `/* ${path} */\n${content}\n\n`
styleOf(path, content) ==
  <<"/", "*", " ">> \o path \o <<" ", "*", "/", NL>> \o content \o <<NL, NL>>

\* `/* ${cssPath} not found */\n`
notFoundOf(cssPath) ==
  <<"/", "*", " ">> \o cssPath
    \o <<" ", "n", "o", "t", " ", "f", "o", "u", "n", "d", " ", "*", "/", NL>>

\* the loop of resolveRelativePath, from the i-th part of the relative path on
RECURSIVE resolveParts(_, _, _)
resolveParts(parts, relParts, i) ==
  IF i > Len(relParts) THEN parts
  ELSE resolveParts(
         IF relParts[i] = <<".", ".">>
         THEN SubSeq(parts, 1, Len(parts) - 1)
         ELSE IF relParts[i] # <<".">> THEN Append(parts, relParts[i])
         ELSE parts,
         relParts, i + 1)

\* resolveRelativePath
resolveRelativePath(fromDir, relativePath) ==
  <<"/">> \o join(resolveParts(filterBoolean(split(fromDir, <<"/">>)),
                               split(relativePath, <<"/">>), 1),
                  <<"/">>)

\* the resolution of a stylesheet import that takes every relative path
\* from the root
resolvedPathOf_fromRoot(from, cssPath) ==
  IF startsWith(cssPath, AT_SLASH) THEN replace(cssPath, AT_SLASH, <<"/">>)
  ELSE IF startsWith(cssPath, <<".", "/">>) \/ startsWith(cssPath, <<".", ".", "/">>)
  THEN resolveRelativePath(<<>>, cssPath)
  ELSE cssPath

\* the path a stylesheet import of the file `from` resolves to
resolvedPathOf(from, cssPath) ==
  IF startsWith(cssPath, AT_SLASH) THEN replace(cssPath, AT_SLASH, <<"/">>)
  ELSE IF startsWith(cssPath, <<".", "/">>) \/ startsWith(cssPath, <<".", ".", "/">>)
  THEN resolveRelativePath(SubSeq(from, 1, lastIndexOf(from, "/") - 1), cssPath)
  ELSE cssPath

\* the stylesheet imports of createImportMap, from the i-th collected one on
RECURSIVE cssPass(_, _, _)
cssPass(snapshot, i, st) ==
  IF i > Len(st.allCssImports) THEN st
  ELSE
    LET resolvedPath == resolvedPathOf(st.allCssImports[i].from,
                                       st.allCssImports[i].cssPath) IN
    cssPass(snapshot, i + 1,
      IF \E j \in 1..Len(snapshot) : snapshot[j].path = resolvedPath
      THEN st
      ELSE [st EXCEPT !.collectedStyles =
              @ \o notFoundOf(st.allCssImports[i].cssPath)])

\* the first pass of createImportMap, from the i-th entry of the snapshot on
RECURSIVE firstPass(_, _, _)
firstPass(snapshot, i, st) ==
  IF i > Len(snapshot) THEN st
  ELSE
    LET path == snapshot[i].path
        content == snapshot[i].content IN
    IF isScript(path)
    THEN
      LET t == transformJSX(content, path,
                            {snapshot[j].path : j \in 1..Len(snapshot)}) IN
      IF t.error # ""
      THEN firstPass(snapshot, i + 1,
             [st EXCEPT !.errors = Append(@, [path |-> path, error |-> t.error])])
      ELSE
        LET blobUrl == createBlobURL(t.code, st.urls)
            s1 == [st EXCEPT !.urls = @ + 1,
                             !.transformedFiles = objSet(@, path, blobUrl)]
            s2 == collectImports(s1, t.missingImports, 1)
            s3 == [s2 EXCEPT !.allCssImports =
                     @ \o [k \in 1..Len(t.cssImports) |->
                             [from |-> path, cssPath |-> t.cssImports[k]]]] IN
        firstPass(snapshot, i + 1,
          [s3 EXCEPT !.imports = objSetAll(@, keysOf(path), 1, blobUrl)])
    ELSE IF endsWith(path, EXT_CSS)
    THEN firstPass(snapshot, i + 1,
           [st EXCEPT !.collectedStyles = @ \o styleOf(path, content.text)])
    ELSE firstPass(snapshot, i + 1, st)

\* the variations under which the second pass looks a local import up
variations(importPath) ==
  LET rooted == replace(importPath, AT_SLASH, <<"/">>) IN
  <<importPath, importPath \o EXT_JSX, importPath \o EXT_TSX,
    importPath \o EXT_JS, importPath \o EXT_TS,
    rooted, rooted \o EXT_JSX, rooted \o EXT_TSX>>

\* the component name of a placeholder: the text after the last "/" when
\* there is some, else the alphanumeric characters of the specifier
componentNameOf(importPath) ==
  LET j == lastIndexOf(importPath, "/") IN
  IF j # 0 /\ j < Len(importPath)
  THEN SubSeq(importPath, j + 1, Len(importPath))
  ELSE SelectSeq(importPath, LAMBDA c : c \in AlphaNumeric)

\* the second pass of createImportMap, from the i-th collected import on
RECURSIVE secondPass(_, _, _)
secondPass(snapshot, i, st) ==
  IF i > Len(st.allImports) THEN st
  ELSE
    LET importPath == st.allImports[i]
        vs == variations(importPath)
        found == \E k \in 1..Len(vs) :
                   \/ objHas(st.imports, vs[k])
                   \/ \E j \in 1..Len(snapshot) : snapshot[j].path = vs[k] IN
    IF objHas(st.imports, importPath)
         \/ startsWith(importPath, <<"r", "e", "a", "c", "t">>)
    THEN secondPass(snapshot, i + 1, st)
    ELSE IF isPackage(importPath)
    THEN secondPass(snapshot, i + 1,
           [st EXCEPT !.imports = objSet(@, importPath, esmUrl(importPath))])
    ELSE IF found
    THEN secondPass(snapshot, i + 1, st)
    ELSE
      LET placeholderUrl ==
            createBlobURL(createPlaceholderModule(componentNameOf(importPath)),
                          st.urls)
          keys == IF startsWith(importPath, AT_SLASH)
                  THEN <<importPath, replace(importPath, AT_SLASH, <<"/">>),
                         replace(importPath, AT_SLASH, <<>>)>>
                  ELSE <<importPath>> IN
      secondPass(snapshot, i + 1,
        [st EXCEPT !.urls = @ + 1,
                   !.imports = objSetAll(@, keys, 1, placeholderUrl)])

\* createImportMap that transforms the files only while the document has
\* created no object URL
createImportMap_firstRunOnly(snapshot, urls) ==
  LET st0 == [imports |-> coreImports, transformedFiles |-> <<>>,
              allImports |-> <<>>, allCssImports |-> <<>>,
              collectedStyles |-> <<>>, errors |-> <<>>, urls |-> urls]
      st1 == firstPass(IF urls = 0 THEN snapshot ELSE <<>>, 1, st0)
      st2 == cssPass(snapshot, 1, st1)
      st3 == secondPass(snapshot, 1, st2) IN
  [importMap |-> [imports |-> st3.imports], styles |-> st3.collectedStyles,
   errors |-> st3.errors, urls |-> st3.urls]

\* createImportMap(files): files is the Map as the sequence of its entries
\* in insertion order, urls the number of object URLs the document has
\* created before the call.  The returned importMap is the object that
\* JSON.stringify writes and JSON.parse reads back: string keys bound to
\* strings.
createImportMap(snapshot, urls) ==
  LET st0 == [imports |-> coreImports, transformedFiles |-> <<>>,
              allImports |-> <<>>, allCssImports |-> <<>>,
              collectedStyles |-> <<>>, errors |-> <<>>, urls |-> urls]
      st1 == firstPass(snapshot, 1, st0)
      st2 == cssPass(snapshot, 1, st1)
      st3 == secondPass(snapshot, 1, st2) IN
  [importMap |-> [imports |-> st3.imports], styles |-> st3.collectedStyles,
   errors |-> st3.errors, urls |-> st3.urls]

-----------------------------------------------------------------------------
(* createPreviewHTML.  The document and the texts interpolated into it are  *)
(* sequences of pieces of text; "<" and ">" are always pieces of their own, *)
(* so that an element <t> is the three pieces "<", t, ">" wherever it comes *)
(* from, the template or an interpolated text.  The entry points of the     *)
(* model are paths, which are no inherited property names.                  *)

QUOTE == "\""

\* the element <t>
tag(t) == <<"<", t, ">">>

\* JSON white space
isSpace(c) == c \in {" ", NL, TAB}

\* the first index at or after i that holds no white space
RECURSIVE skipSpace(_, _)
skipSpace(s, i) ==
  IF i <= Len(s) /\ isSpace(s[i]) THEN skipSpace(s, i + 1) ELSE i

\* the values JSON.parse returns: null, a string, an object
JsonNull == [type |-> "null", s |-> <<>>, members |-> <<>>]

JsonString(s) == [type |-> "string", s |-> s, members |-> <<>>]

JsonObject(members) == [type |-> "object", s |-> <<>>, members |-> members]

\* JSON.parse throws SyntaxError
JsonFail == [ok |-> FALSE, val |-> JsonNull, next |-> 0]

\* a string literal at index i: up to the closing quote, no control character
parseString(s, i) ==
  LET j == indexOfFrom(s, <<QUOTE>>, i + 1) IN
  IF j = 0 \/ \E k \in (i + 1)..(j - 1) : s[k] \in {NL, TAB}
  THEN JsonFail
  ELSE [ok |-> TRUE, val |-> JsonString(SubSeq(s, i + 1, j - 1)), next |-> j + 1]

\* a value at or after index i0; the members of an object from the key at
\* index i on, m the members read so far (a later duplicate key wins)
RECURSIVE parseValue(_, _)
RECURSIVE parseMembers(_, _, _)
parseValue(s, i0) ==
  LET i == skipSpace(s, i0) IN
  IF i > Len(s) THEN JsonFail
  ELSE IF s[i] = QUOTE THEN parseString(s, i)
  ELSE IF s[i] = "null" THEN [ok |-> TRUE, val |-> JsonNull, next |-> i + 1]
  ELSE IF s[i] = "{"
  THEN LET j == skipSpace(s, i + 1) IN
       IF j <= Len(s) /\ s[j] = "}"
       THEN [ok |-> TRUE, val |-> JsonObject(<<>>), next |-> j + 1]
       ELSE parseMembers(s, j, <<>>)
  ELSE JsonFail

parseMembers(s, i, m) ==
  IF i > Len(s) \/ s[i] # QUOTE THEN JsonFail
  ELSE
    LET k == parseString(s, i) IN
    IF ~k.ok THEN JsonFail
    ELSE
      LET c == skipSpace(s, k.next) IN
      IF c > Len(s) \/ s[c] # ":" THEN JsonFail
      ELSE
        LET v == parseValue(s, c + 1) IN
        IF ~v.ok THEN JsonFail
        ELSE
          LET e == skipSpace(s, v.next)
              m1 == objSet(m, k.val.s, v.val) IN
          IF e > Len(s) THEN JsonFail
          ELSE IF s[e] = "}"
          THEN [ok |-> TRUE, val |-> JsonObject(m1), next |-> e + 1]
          ELSE IF s[e] = ","
          THEN parseMembers(s, skipSpace(s, e + 1), m1)
          ELSE JsonFail

\* JSON.parse(text)
JSONparse(text) ==
  LET v == parseValue(text, 1) IN
  IF v.ok /\ skipSpace(text, v.next) > Len(text) THEN v ELSE JsonFail

IMPORTS == <<"i", "m", "p", "o", "r", "t", "s">>

\* the entry resolution that never reads the map
entryPointUrlOf_bare(entryPoint, importMap) == entryPoint

\* entryPointUrl: the try block of createPreviewHTML.  A SyntaxError of
\* JSON.parse and the TypeError of reading a property of null are caught;
\* a property of a string is undefined; null, undefined and "" are falsy;
\* an object is interpolated as "[object Object]".
entryPointUrlOf(entryPoint, importMap) ==
  LET p == JSONparse(importMap) IN
  IF ~p.ok \/ p.val.type # "object" THEN entryPoint
  ELSE IF ~objHas(p.val.members, IMPORTS) THEN entryPoint
  ELSE
    LET imports == p.val.members[IMPORTS] IN
    IF imports.type # "object" THEN entryPoint
    ELSE IF ~objHas(imports.members, entryPoint) THEN entryPoint
    ELSE
      LET v == imports.members[entryPoint] IN
      IF v.type = "string" THEN (IF v.s = <<>> THEN entryPoint ELSE v.s)
      ELSE IF v.type = "null" THEN entryPoint
      ELSE <<"[object Object]">>

\* c is a decimal digit
isDigit(c) == \E d \in 1..Len(Digits) : Digits[d] = c

\* the number of digits of s from index i on
RECURSIVE digitsFrom(_, _)
digitsFrom(s, i) ==
  IF i <= Len(s) /\ isDigit(s[i]) THEN 1 + digitsFrom(s, i + 1) ELSE 0

\* the length of the match of /\((\d+:\d+)\)/ at index i; 0 if none
locationAt(s, i) ==
  LET a == digitsFrom(s, i + 1)
      b == digitsFrom(s, i + a + 2) IN
  IF /\ s[i] = "("
     /\ a > 0
     /\ i + a + 1 <= Len(s) /\ s[i + a + 1] = ":"
     /\ b > 0
     /\ i + a + b + 2 <= Len(s) /\ s[i + a + b + 2] = ")"
  THEN a + b + 3
  ELSE 0

\* the index of the first match of /\((\d+:\d+)\)/ in s; 0 if none
locationIndex(s) ==
  IF \E i \in 1..Len(s) : locationAt(s, i) > 0
  THEN CHOOSE i \in 1..Len(s) :
         locationAt(s, i) > 0 /\ \A j \in 1..(i - 1) : locationAt(s, j) = 0
  ELSE 0

\* String.prototype.trim
RECURSIVE trim(_)
trim(s) ==
  IF s = <<>> THEN s
  ELSE IF isSpace(s[1]) THEN trim(Tail(s))
  ELSE IF isSpace(s[Len(s)]) THEN trim(SubSeq(s, 1, Len(s) - 1))
  ELSE s

\* .replace(/</g, '&lt;').replace(/>/g, '&gt;')
escapeHtml(s) ==
  [i \in 1..Len(s) |->
     IF s[i] = "<" THEN "&lt;" ELSE IF s[i] = ">" THEN "&gt;" ELSE s[i]]

\* JSON.stringify of a string: a string literal of the script
jsString(s) ==
  <<QUOTE>>
    \o [i \in 1..Len(s) |->
          IF s[i] = QUOTE THEN "\\\"" ELSE IF s[i] = NL THEN "\\n" ELSE s[i]]
    \o <<QUOTE>>

\* the item of one error in the listing
errorItem(e) ==
  LET i == locationIndex(e.error)
      n == IF i = 0 THEN 0 ELSE locationAt(e.error, i)
      location == IF i = 0 THEN <<>> ELSE SubSeq(e.error, i + 1, i + n - 2)
      cleanError == trim(IF i = 0 THEN e.error
                         ELSE SubSeq(e.error, 1, i - 1)
                                \o SubSeq(e.error, i + n, Len(e.error))) IN
  tag("div class=\"error-item\"")
    \o tag("div class=\"error-path\"") \o e.path
    \o (IF location # <<>>
        THEN tag("span class=\"error-location\"") \o location \o tag("/span")
        ELSE <<>>)
    \o tag("/div")
    \o tag("div class=\"error-message\"") \o escapeHtml(cleanError) \o tag("/div")
    \o tag("/div")

\* errors.map(...).join('') from the i-th error on
RECURSIVE errorItems(_, _)
errorItems(errors, i) ==
  IF i > Len(errors) THEN <<>>
  ELSE errorItem(errors[i]) \o errorItems(errors, i + 1)

\* createPreviewHTML
createPreviewHTML(entryPoint, importMap, styles, errors) ==
  LET entryPointUrl == entryPointUrlOf(entryPoint, importMap) IN
  <<"<!DOCTYPE html>">> \o tag("html lang=\"en\"") \o tag("head")
    \o tag("script src=\"https://cdn.tailwindcss.com\"") \o tag("/script")
    \o tag("style")
    \o <<"body", "#root", ".error-boundary", ".syntax-errors",
         ".syntax-errors h3", ".syntax-errors .error-item",
         ".syntax-errors .error-path", ".syntax-errors .error-message",
         ".syntax-errors .error-location">>
    \o tag("/style")
    \o (IF styles # <<>>
        THEN tag("style") \o <<NL>> \o styles \o tag("/style")
        ELSE <<>>)
    \o tag("script type=\"importmap\"") \o importMap \o tag("/script")
    \o tag("/head") \o tag("body")
    \o (IF Len(errors) > 0
        THEN tag("div class=\"syntax-errors\"")
               \o tag("h3") \o <<"Syntax Error">>
               \o (IF Len(errors) > 1 THEN <<"s">> ELSE <<>>)
               \o <<" ", "(">> \o toString(Len(errors)) \o <<")">> \o tag("/h3")
               \o errorItems(errors, 1)
               \o tag("/div")
        ELSE <<>>)
    \o tag("div id=\"root\"") \o tag("/div")
    \o (IF Len(errors) = 0
        THEN tag("script type=\"module\"")
               \o <<"import React from 'react';",
                    "import ReactDOM from 'react-dom/client';",
                    "class ErrorBoundary extends React.Component",
                    "async function ", "loadApp()", " {",
                    "const module = await import('">> \o entryPointUrl \o <<"');",
                    "No default export or App export found in ">> \o entryPoint
               \o <<"console.error('Import map:', ">> \o jsString(importMap)
               \o <<");", "}", "loadApp()", ";">>
               \o tag("/script")
        ELSE <<>>)
    \o tag("/body") \o tag("/html")

-----------------------------------------------------------------------------
(* components/preview/PreviewFrame.tsx.  The state of the component is its  *)
(* three useState cells; a refresh is one run of the effect: it reads the   *)
(* cells of the render it belongs to, and the values it sets are those of   *)
(* the next render.  The iframe is mounted in a render without error, and   *)
(* iframeRef.current is the iframe exactly then.  The serial numbers of     *)
(* object URLs are not followed from one refresh to the next.               *)

\* the text of a URL
urlText(url) ==
  IF url.scheme = "blob" THEN <<"blob:">> \o toString(url.n)
  ELSE <<"https://", url.of[1], "/">> \o url.of[2]

\* the keys of an object in some order: the order in which JSON.stringify
\* writes the members is not one JSON.parse observes
RECURSIVE keysInOrder(_)
keysInOrder(S) ==
  IF S = {} THEN <<>>
  ELSE LET k == CHOOSE x \in S : TRUE IN <<k>> \o keysInOrder(S \ {k})

\* the members of the imports object as JSON.stringify(_, null, 2) writes
\* them, from the i-th key on
RECURSIVE membersText(_, _, _)
membersText(imports, keys, i) ==
  IF i > Len(keys) THEN <<>>
  ELSE <<NL, " ", " ", " ", " ">> \o <<QUOTE>> \o keys[i] \o <<QUOTE, ":", " ", QUOTE>>
         \o urlText(imports[keys[i]]) \o <<QUOTE>>
         \o (IF i < Len(keys) THEN <<",">> ELSE <<>>)
         \o membersText(imports, keys, i + 1)

\* JSON.stringify({ imports }, null, 2): the text createImportMap returns as
\* importMap
JSONstringify(importMap) ==
  <<"{", NL, " ", " ", QUOTE>> \o IMPORTS \o <<QUOTE, ":", " ", "{">>
    \o membersText(importMap.imports, keysInOrder(DOMAIN importMap.imports), 1)
    \o (IF DOMAIN importMap.imports = {} THEN <<>> ELSE <<NL, " ", " ">>)
    \o <<"}", NL, "}">>

\* error === null
NoError == "null"

FirstLoad == "firstLoad"

NoFiles == "No files to preview"

NoComponent ==
  "No React component found. Create an App.jsx or index.jsx file to get started."

\* no document is assigned to the iframe
NoDocument == <<>>

APP_JSX == <<"/", "A", "p", "p", ".", "j", "s", "x">>

\* possibleEntries
possibleEntries ==
  <<APP_JSX,
    <<"/", "A", "p", "p", ".", "t", "s", "x">>,
    <<"/", "i", "n", "d", "e", "x", ".", "j", "s", "x">>,
    <<"/", "i", "n", "d", "e", "x", ".", "t", "s", "x">>,
    <<"/", "s", "r", "c", "/", "A", "p", "p", ".", "j", "s", "x">>,
    <<"/", "s", "r", "c", "/", "A", "p", "p", ".", "t", "s", "x">>>>

\* Array.prototype.find: the first element that satisfies the test, NOSTRING
\* for undefined
findFirst(arr, test(_)) ==
  IF \E i \in 1..Len(arr) : test(arr[i])
  THEN arr[CHOOSE i \in 1..Len(arr) :
             test(arr[i]) /\ \A j \in 1..(i - 1) : ~test(arr[j])]
  ELSE NOSTRING

\* files.has(path)
snapshotHas(snapshot, path) == \E i \in 1..Len(snapshot) : snapshot[i].path = path

\* the state of the component when it is mounted
PreviewFrame ==
  [error |-> NoError, entryPoint |-> APP_JSX, isFirstLoad |-> TRUE]

\* the entry search of updatePreview that takes the first file of the
\* snapshot whatever its extension
foundEntryPointOf_anyFile(entryPoint, snapshot) ==
  IF snapshotHas(snapshot, entryPoint) THEN entryPoint
  ELSE
    LET found == findFirst(possibleEntries, LAMBDA p : snapshotHas(snapshot, p))
        firstJSX == findFirst([i \in 1..Len(snapshot) |-> snapshot[i].path],
                              LAMBDA p : TRUE) IN
    IF found # NOSTRING THEN found
    ELSE IF Len(snapshot) > 0 /\ firstJSX # NOSTRING THEN firstJSX
    ELSE entryPoint

\* foundEntryPoint of updatePreview
foundEntryPointOf(entryPoint, snapshot) ==
  IF snapshotHas(snapshot, entryPoint) THEN entryPoint
  ELSE
    LET found == findFirst(possibleEntries, LAMBDA p : snapshotHas(snapshot, p))
        firstJSX == findFirst([i \in 1..Len(snapshot) |-> snapshot[i].path],
                              LAMBDA p : endsWith(p, EXT_JSX) \/ endsWith(p, EXT_TSX)) IN
    IF found # NOSTRING THEN found
    ELSE IF Len(snapshot) > 0 /\ firstJSX # NOSTRING THEN firstJSX
    ELSE entryPoint

\* the error state of a refresh that sees no file, were the welcome state
\* shown whatever isFirstLoad is
emptyError_alwaysWelcome(isFirstLoad) == FirstLoad

\* the error state set by a refresh that sees no file
emptyError(isFirstLoad) == IF isFirstLoad THEN FirstLoad ELSE NoFiles

\* updatePreview in the render with state c, getAllFiles() returning the
\* snapshot: the state of the next render, the document built (previewHTML)
\* and the document assigned to the iframe (srcdoc)
updatePreview(c, snapshot) ==
  LET \* the error after `if (files.size > 0 && error) setError(null)`
      cleared == IF Len(snapshot) > 0 /\ c.error # NoError THEN NoError ELSE c.error
      foundEntryPoint == foundEntryPointOf(c.entryPoint, snapshot)
      \* iframeRef.current: the iframe is rendered when there is no error
      iframe == c.error = NoError IN
  IF Len(snapshot) = 0
  THEN [error |-> emptyError(c.isFirstLoad),
        entryPoint |-> foundEntryPoint, isFirstLoad |-> c.isFirstLoad,
        previewHTML |-> NoDocument, srcdoc |-> NoDocument]
  ELSE IF foundEntryPoint = <<>> \/ ~snapshotHas(snapshot, foundEntryPoint)
  THEN [error |-> NoComponent, entryPoint |-> foundEntryPoint,
        isFirstLoad |-> FALSE,
        previewHTML |-> NoDocument, srcdoc |-> NoDocument]
  ELSE
    LET r == createImportMap(snapshot, 0)
        previewHTML ==
          createPreviewHTML(foundEntryPoint, JSONstringify(r.importMap), r.styles,
            [i \in 1..Len(r.errors) |->
               [path |-> r.errors[i].path, error |-> <<r.errors[i].error>>]]) IN
    [error |-> IF iframe THEN NoError ELSE cleared,
     entryPoint |-> foundEntryPoint, isFirstLoad |-> FALSE,
     previewHTML |-> previewHTML,
     srcdoc |-> IF iframe THEN previewHTML ELSE NoDocument]

-----------------------------------------------------------------------------
(* Inputs                                                                  *)

\* path strings handed to the operations: the root, two top-level paths, a
\* relative path with a doubled trailing slash (/a/ once normalized), and a
\* nested path with doubled leading and inner slashes (/a/b once normalized)
InPaths ==
  { <<"/">>,
    <<"/", "a">>,
    <<"a", "/", "/">>,
    <<"/", "/", "a", "/", "/", "b", "/">>,
    <<"/", "b">> }

\* spellings of the root path
RootSpellings == { <<>>, <<"/">>, <<"/", "/">>, <<"/", "/", "/">> }

\* file contents handed to createFile, updateFile and createFileWithParents
Contents == { <<>>, <<"x">> }

\* paths handed to replaceInFile and insertInFile
TextPaths == { <<"/", "a">>, <<"/", "b">> }

\* old texts of replaceInFile
OldTexts == { <<>>, <<"x">>, <<NL>> }

\* new texts of replaceInFile and inserted texts of insertInFile
NewTexts == { <<>>, <<"x">> }

\* line numbers handed to insertInFile
InsertLines == -1..2

\* keys of the records handed to deserialize and deserializeFromNodes
DataPaths == { <<"/">>, <<"a", "/", "/">>, <<"/", "/", "a", "/", "/", "b", "/">> }

\* Record<string, string> values with at most MaxData keys
StringData ==
  UNION {[D -> {<<"x">>}] : D \in {E \in SUBSET DataPaths : Cardinality(E) <= MaxData}}

\* Record<string, FileNode> values with at most MaxData keys; deserializeFromNodes
\* reads the type and the content of a descriptor
NodeData ==
  UNION {[D -> {[type |-> "file", content |-> <<"x">>],
                [type |-> "directory", content |-> <<>>]}] :
         D \in {E \in SUBSET DataPaths : Cardinality(E) <= MaxData}}

-----------------------------------------------------------------------------
(* The state machine                                                       *)

\* the VirtualFileSystem instance
Fs == [files |-> files, heap |-> heap, root |-> root]

\* no helper has been called on its own
NoCall == [op |-> "none"]

\* an operation ends, by a return or (exc) by an exception that leaves it:
\* unreachable objects are collected
Return(fs, exc) ==
  \E g \in {collect(fs)} :
  /\ Cardinality(DOMAIN g.heap) <= MaxNodes
  /\ \A n \in DOMAIN g.heap : Len(g.heap[n].content) <= MaxContent
  /\ files' = g.files
  /\ heap' = g.heap
  /\ root' = g.root
  /\ raised' = exc
  /\ out' = out

Init ==
  /\ files = EmptyFs.files
  /\ heap = EmptyFs.heap
  /\ root = EmptyFs.root
  /\ raised = FALSE
  /\ out = NoCall

CreateFile ==
  /\ ~raised
  /\ \E p \in InPaths, c \in Contents :
       \E r \in {createFile(Fs, p, c)} : Return(r.fs, FALSE)

CreateDirectory ==
  /\ ~raised
  /\ \E p \in InPaths :
       \E r \in {createDirectory(Fs, p)} : Return(r.fs, FALSE)

UpdateFile ==
  /\ ~raised
  /\ \E p \in InPaths, c \in Contents :
       \E r \in {updateFile(Fs, p, c)} : Return(r.fs, FALSE)

DeleteFile ==
  /\ ~raised
  /\ \E p \in InPaths :
       \E r \in {deleteFile(Fs, p)} : Return(r.fs, FALSE)

Rename ==
  /\ ~raised
  /\ \E o \in InPaths, n \in InPaths :
       \E r \in {rename(Fs, o, n)} : Return(r.fs, r.raised)

Deserialize ==
  /\ ~raised
  /\ \E data \in StringData :
       \E r \in {deserialize(Fs, data)} : Return(r, FALSE)

DeserializeFromNodes ==
  /\ ~raised
  /\ \E data \in NodeData :
       \E r \in {deserializeFromNodes(Fs, data)} :
         Return(r, FALSE)

CreateFileWithParents ==
  /\ ~raised
  /\ \E p \in InPaths, c \in Contents :
       \E r \in {createFileWithParents(Fs, p, c)} :
       Return(r.fs, FALSE)

ReplaceInFile ==
  /\ ~raised
  /\ \E p \in TextPaths, o \in OldTexts, n \in NewTexts :
       \E r \in {replaceInFile(Fs, p, o, n)} :
       Return(r.fs, FALSE)

InsertInFile ==
  /\ ~raised
  /\ \E p \in TextPaths, i \in InsertLines, t \in NewTexts :
       \E r \in {insertInFile(Fs, p, i, t)} :
       Return(r.fs, FALSE)

Reset ==
  /\ ~raised
  /\ \E r \in {reset(Fs)} : Return(r, FALSE)

Next ==
  \/ CreateFile
  \/ CreateDirectory
  \/ UpdateFile
  \/ DeleteFile
  \/ Rename
  \/ Deserialize
  \/ DeserializeFromNodes
  \/ CreateFileWithParents
  \/ ReplaceInFile
  \/ InsertInFile
  \/ Reset

Spec == Init /\ [][Next]_vars

-----------------------------------------------------------------------------
(* normalizePath on its own: every string over PathChars up to MaxLen       *)

InitNorm == Init

NormalizePath ==
  /\ \E p \in StringsUpTo(PathChars, MaxLen) :
       out' = [op |-> "normalizePath", path |-> p, ret |-> normalizePath(p)]
  /\ UNCHANGED <<files, heap, root, raised>>

NextNorm == NormalizePath

SpecNorm == InitNorm /\ [][NextNorm]_vars

-----------------------------------------------------------------------------
(* The text editor commands on one file: every content over TextChars up    *)
(* to MaxText                                                               *)

\* the characters of file contents: an ordinary character, a character that
\* is special in a regular expression, and the line separator
TextChars == {"x", ".", NL}

\* the file the text editor commands work on
TextFile == <<"/", "a">>

\* contents handed to createFileWithParents
TextContents == StringsUpTo(TextChars, 2)

\* old texts handed to replaceInFile
TextOld == StringsUpTo(TextChars, MaxOld)

\* new texts handed to replaceInFile and texts handed to insertInFile
TextNew == {<<>>, <<"x">>, <<".">>, <<NL>>, <<"x", ".">>}

\* line numbers handed to insertInFile, range ends handed to viewFile
TextLines == (0 - MaxLine)..MaxLine

\* a text command ends: contents longer than MaxText are not followed further
ReturnText(fs) ==
  \E g \in {collect(fs)} :
  /\ \A n \in DOMAIN g.heap : Len(g.heap[n].content) <= MaxText
  /\ files' = g.files
  /\ heap' = g.heap
  /\ root' = g.root
  /\ UNCHANGED <<raised, out>>

InitText == Init

TextCreate ==
  \E c \in TextContents :
    \E r \in {createFileWithParents(Fs, TextFile, c)} : ReturnText(r.fs)

TextReplace ==
  \E o \in TextOld, n \in TextNew :
    \E r \in {replaceInFile(Fs, TextFile, o, n)} : ReturnText(r.fs)

TextInsert ==
  \E i \in TextLines, t \in TextNew :
    \E r \in {insertInFile(Fs, TextFile, i, t)} : ReturnText(r.fs)

TextDelete ==
  \E r \in {deleteFile(Fs, TextFile)} : ReturnText(r.fs)

NextText ==
  \/ TextCreate
  \/ TextReplace
  \/ TextInsert
  \/ TextDelete

SpecText == InitText /\ [][NextText]_vars

-----------------------------------------------------------------------------
(* createImportMap on its own: every snapshot of up to MaxFiles files with  *)
(* up to MaxImports import statements                                       *)

\* the paths of the snapshot: two scripts that differ in extension only, a
\* script in a directory, a file that is neither script nor stylesheet, and
\* two stylesheets
SnapshotPaths ==
  {<<"/", "a", ".", "j", "s", "x">>, <<"/", "a", ".", "j", "s">>,
   <<"/", "d", "/", "b", ".", "t", "s", "x">>,
   <<"/", "a", ".", "j", "s", "o", "n">>,
   <<"/", "a", ".", "c", "s", "s">>, <<"/", "d", "/", "a", ".", "c", "s", "s">>}

\* the specifiers of bare stylesheet imports
CssSpecifiers ==
  {<<".", "/", "a", ".", "c", "s", "s">>,
   <<".", ".", "/", "a", ".", "c", "s", "s">>,
   <<"@", "/", "a", ".", "c", "s", "s">>}

\* the text of a stylesheet
CssText == <<"x">>

\* the specifiers of import statements: the spellings of /a, a package, a
\* core name, and a file that is no script
Specifiers ==
  {<<"/", "a">>, <<"@", "/", "a">>, <<".", "/", "a">>, <<"a">>,
   <<"r", "e", "a", "c", "t">>, <<"/", "a", ".", "j", "s", "o", "n">>}

\* the message of the error Babel throws on a text it cannot compile
SyntaxError == "Unexpected token"

\* the sequences without repetition of at most k elements of S
Distinct(S, k) ==
  {t \in StringsUpTo(S, k) : \A i, j \in 1..Len(t) : t[i] = t[j] => i = j}

\* the texts of a file at path with at most k import statements: a script
\* compiles or not, and the imports of a text that does not compile are
\* never read
TextsOf(path, k) ==
  IF isScript(path)
  THEN {[error |-> SyntaxError, imports |-> <<>>, cssImports |-> <<>>,
         text |-> <<>>]}
         \cup {[error |-> "", imports |-> s, cssImports |-> c, text |-> <<>>] :
                 s \in Distinct(Specifiers, k), c \in Distinct(CssSpecifiers, k)}
  ELSE IF endsWith(path, EXT_CSS)
  THEN {[error |-> "", imports |-> <<>>, cssImports |-> <<>>, text |-> CssText]}
  ELSE {[error |-> "", imports |-> <<>>, cssImports |-> <<>>, text |-> <<>>]}

\* the number of import statements of a snapshot
RECURSIVE importsIn(_)
importsIn(snapshot) ==
  IF snapshot = <<>> THEN 0
  ELSE Len(snapshot[1].content.imports) + Len(snapshot[1].content.cssImports)
         + importsIn(Tail(snapshot))

\* the snapshots of at most n files with at most k import statements
RECURSIVE SnapshotsUpTo(_, _)
SnapshotsUpTo(n, k) ==
  IF n = 0 THEN {<<>>}
  ELSE LET shorter == SnapshotsUpTo(n - 1, k) IN
       shorter \cup
         UNION {UNION {{Append(s, [path |-> p, content |-> c]) :
                          c \in {x \in TextsOf(p, k - importsIn(s)) :
                                   Len(x.imports) + Len(x.cssImports)
                                     <= k - importsIn(s)}} :
                       p \in {q \in SnapshotPaths :
                                \A i \in 1..Len(s) : s[i].path # q}} :
                s \in shorter}

Snapshots == SnapshotsUpTo(MaxFiles, MaxImports)

InitMap == Init

\* one call of createImportMap
CreateImportMap ==
  /\ out = NoCall
  /\ \E s \in Snapshots :
       out' = [op |-> "createImportMap", files |-> s,
               ret |-> createImportMap(s, 0)]
  /\ UNCHANGED <<files, heap, root, raised>>

\* a second call of createImportMap on the same snapshot, in the same
\* document: the object URLs of the first call exist
CreateImportMapAgain ==
  /\ out.op = "createImportMap"
  /\ out' = [op |-> "createImportMapAgain", files |-> out.files,
             first |-> out.ret,
             ret |-> createImportMap(out.files, out.ret.urls)]
  /\ UNCHANGED <<files, heap, root, raised>>

NextMap ==
  \/ CreateImportMap
  \/ CreateImportMapAgain

SpecMap == InitMap /\ [][NextMap]_vars

-----------------------------------------------------------------------------
(* createPreviewHTML on its own                                             *)

\* the entry points
EntryPoints == {<<"/", "a">>, <<"/", "b">>}

\* the string literal of s in a JSON text
jsonLiteral(s) == <<QUOTE>> \o s \o <<QUOTE>>

\* the map texts: as JSON.stringify(_, null, 2) writes a map that binds /a, a
\* map without keys, an object without imports, imports bound to null, /a
\* bound to null, null, a text cut short, a text that is no JSON
MapTexts ==
  {<<"{", NL, " ", " ">> \o jsonLiteral(IMPORTS) \o <<":", " ", "{", NL,
       " ", " ", " ", " ">> \o jsonLiteral(<<"/", "a">>) \o <<":", " ">>
       \o jsonLiteral(<<"b", "l", "o", "b", ":", "1">>)
       \o <<NL, " ", " ", "}", NL, "}">>,
   <<"{", NL, " ", " ">> \o jsonLiteral(IMPORTS) \o <<":", " ", "{", "}", NL, "}">>,
   <<"{", "}">>,
   <<"{">> \o jsonLiteral(IMPORTS) \o <<":", "null", "}">>,
   <<"{">> \o jsonLiteral(IMPORTS) \o <<":", "{">> \o jsonLiteral(<<"/", "a">>)
       \o <<":", "null", "}", "}">>,
   <<"null">>,
   <<"{">> \o jsonLiteral(IMPORTS) \o <<":", "{">>,
   <<"i", "n", "v", "a", "l", "i", "d", " ", "j", "s", "o", "n">>}

\* the stylesheet blobs: none, a rule, and a text that closes the style
\* element and opens a module script
StyleTexts ==
  {<<>>, <<"x">>,
   tag("/style") \o tag("script type=\"module\"") \o <<"loadApp()">> \o tag("/script")}

\* the paths of error entries: a path, and a text that opens an element
ErrorPaths == {<<"/", "a">>, tag("div class=\"error-item\"")}

\* the messages of error entries: plain, with a location, with a tag
ErrorMessages ==
  {<<"x">>, <<"x", " ", "(", "1", ":", "2", ")">>, <<"<", "x", ">">>}

\* the error lists of at most MaxErrors entries
ErrorLists ==
  StringsUpTo({[path |-> p, error |-> e] : p \in ErrorPaths, e \in ErrorMessages},
              MaxErrors)

InitHtml == Init

\* one call of createPreviewHTML
CreatePreviewHTML ==
  /\ out = NoCall
  /\ \E entryPoint \in EntryPoints, importMap \in MapTexts,
        styles \in StyleTexts, errors \in ErrorLists :
       out' = [op |-> "createPreviewHTML", entryPoint |-> entryPoint,
               importMap |-> importMap, styles |-> styles, errors |-> errors,
               ret |-> createPreviewHTML(entryPoint, importMap, styles, errors)]
  /\ UNCHANGED <<files, heap, root, raised>>

NextHtml == CreatePreviewHTML

SpecHtml == InitHtml /\ [][NextHtml]_vars

-----------------------------------------------------------------------------
(* PreviewFrame: refreshes on snapshots of up to MaxFiles files              *)

\* the paths of the snapshots: two of the possible entries, two other
\* components, and a stylesheet
PreviewPaths ==
  {APP_JSX, <<"/", "i", "n", "d", "e", "x", ".", "j", "s", "x">>,
   <<"/", "b", ".", "t", "s", "x">>, <<"/", "c", ".", "j", "s", "x">>,
   <<"/", "a", ".", "c", "s", "s">>}

\* the text of the file at a path: /c.jsx does not compile
PreviewText(path) ==
  [error |-> IF path = <<"/", "c", ".", "j", "s", "x">> THEN SyntaxError ELSE "",
   imports |-> <<>>, cssImports |-> <<>>,
   text |-> IF endsWith(path, EXT_CSS) THEN CssText ELSE <<>>]

\* the snapshots getAllFiles() returns
PreviewSnapshots ==
  {[i \in 1..Len(ps) |-> [path |-> ps[i], content |-> PreviewText(ps[i])]] :
     ps \in Distinct(PreviewPaths, MaxFiles)}

\* the component is mounted; no refresh has run
InitPreview == Init

\* one refresh: the effect runs in the current render.  `files` is the
\* snapshot it saw and `seen` records that some refresh saw a non-empty one
Refresh ==
  /\ out.op \in {"none", "updatePreview"}
  /\ \E s \in PreviewSnapshots :
       LET c == IF out = NoCall THEN PreviewFrame
                ELSE [error |-> out.error, entryPoint |-> out.entryPoint,
                      isFirstLoad |-> out.isFirstLoad] IN
       \E r \in {updatePreview(c, s)} :
         out' = [op |-> "updatePreview", files |-> s, before |-> c,
                 error |-> r.error, entryPoint |-> r.entryPoint,
                 isFirstLoad |-> r.isFirstLoad,
                 previewHTML |-> r.previewHTML, srcdoc |-> r.srcdoc,
                 seen |-> (Len(s) > 0 \/ (out # NoCall /\ out.seen))]
  /\ UNCHANGED <<files, heap, root, raised>>

NextPreview == Refresh

SpecPreview == InitPreview /\ [][NextPreview]_vars

-----------------------------------------------------------------------------
(* Properties                                                              *)

\* the normal form of a path: one leading slash, no trailing slash unless it
\* is the root, no doubled slash
IsNormalized(path) ==
  /\ startsWith(path, <<SLASH>>)
  /\ path = ROOT \/ ~endsWith(path, <<SLASH>>)
  /\ ~includes(path, <<SLASH, SLASH>>)

\* parent.path joined with name
joinPath(parentPath, name) ==
  IF parentPath = ROOT THEN <<SLASH>> \o name ELSE parentPath \o <<SLASH>> \o name

\* the flat table and the parent -> children relation of fs agree
IndicesAgree(fs) ==
  /\ \A k \in DOMAIN fs.files :
       LET n == fs.files[k] IN
       /\ fs.heap[n].path = k
       /\ k # ROOT =>
            \E pk \in DOMAIN fs.files :
              LET parent == fs.heap[fs.files[pk]] IN
              /\ parent.type = "directory"
              /\ mapGet(parent.children, fs.heap[n].name) = n
              /\ fs.heap[n].path = joinPath(parent.path, fs.heap[n].name)
  /\ \A k \in DOMAIN fs.files :
       LET dir == fs.heap[fs.files[k]] IN
       \A i \in 1..Len(dir.children) :
         LET child == dir.children[i].id IN
         /\ fs.heap[child].path \in DOMAIN fs.files
         /\ fs.files[fs.heap[child].path] = child

\* C1: after any sequence of operations the flat path table and the
\* directories' children agree: every non-root node of the table is held by a
\* parent directory of the table under its own name, its path is the parent's
\* path joined with its name, its key is its path, and every child of every
\* directory is in the table under its path.
C1_IndicesAgree == IndicesAgree(Fs)

\* C5: in every reachable state the root exists and is a directory, under
\* every spelling of the root path, and deleteFile of the root returns false.
C5_RootAlwaysExists ==
  /\ ROOT \in DOMAIN files
  /\ heap[files[ROOT]].type = "directory"
  /\ \A p \in RootSpellings :
       /\ exists(Fs, p)
       /\ heap[getNode(Fs, p)].type = "directory"
       /\ \A r \in {deleteFile(Fs, p)} : r.ret = FALSE /\ r.fs = Fs

\* a tree in which the root holds two children, and deleteFile of the root
\* leaves by its test for the root
C5_Witness ==
  /\ Len(heap[root].children) = 2
  /\ \A r \in {deleteFile(Fs, ROOT)} : r.at = "root" /\ r.ret = FALSE

\* C9: normalizePath returns a string that starts with a slash, does not end
\* with one unless it is the root, and has no doubled slash; so normalizing
\* its result again changes nothing.
C9_NormalizedForm ==
  out.op = "normalizePath" =>
    /\ IsNormalized(out.ret)
    /\ normalizePath(out.ret) = out.ret

\* C10: no operation raises an exception or recurses without bound; every
\* outcome is a returned value.
C10_NoOperationRaises == raised = FALSE

\* k is base or a path below base
isBelow(k, base) == k = base \/ startsWith(k, base \o <<SLASH>>)

\* the proper ancestors of a normalized path, the root included
ancestors(normalized) ==
  LET parts == filterBoolean(split(normalized, <<SLASH>>)) IN
  {ROOT} \cup {<<SLASH>> \o join(SubSeq(parts, 1, j), <<SLASH>>) : j \in 1..(Len(parts) - 1)}

\* the node at key k of before is the same object at key k of after, with the
\* same type, name, path and content, and it still holds every child it held
isPreserved(before, after, k) ==
  /\ k \in DOMAIN after.files
  /\ after.files[k] = before.files[k]
  /\ LET old == before.heap[before.files[k]]
         new == after.heap[after.files[k]]
     IN /\ new.type = old.type
        /\ new.name = old.name
        /\ new.path = old.path
        /\ new.content = old.content
        /\ \A i \in 1..Len(old.children) :
             mapGet(new.children, old.children[i].name) = old.children[i].id

\* the inputs of the properties: the paths of the operations and the other
\* spellings of the root
AnyPaths == InPaths \cup RootSpellings

\* C2: when rename succeeds on a directory, every node that was at oldPath or
\* below it is afterwards absent at its old path and present at the same
\* place below newPath with its type and content, nothing is added to the
\* moved subtree, and the nodes outside it are unchanged.
C2_RenameMovesSubtree ==
  \A o \in InPaths, n \in InPaths :
    \A r \in {rename(Fs, o, n)} :
      LET old == normalizePath(o)
          new == normalizePath(n)
          moved(k) == new \o SubSeq(k, Len(old) + 1, Len(k))
      IN (r.ret /\ heap[getNode(Fs, o)].type = "directory") =>
           /\ \A k \in DOMAIN files :
                isBelow(k, old) =>
                  /\ ~exists(r.fs, k)
                  /\ exists(r.fs, moved(k))
                  /\ r.fs.heap[getNode(r.fs, moved(k))].type = heap[files[k]].type
                  /\ r.fs.heap[getNode(r.fs, moved(k))].content = heap[files[k]].content
           /\ \A k \in DOMAIN r.fs.files :
                isBelow(k, new) =>
                  \E j \in DOMAIN files : isBelow(j, old) /\ moved(j) = k
           /\ \A k \in DOMAIN files :
                ~isBelow(k, old) =>
                  /\ k \in DOMAIN r.fs.files
                  /\ r.fs.heap[r.fs.files[k]].type = heap[files[k]].type
                  /\ r.fs.heap[r.fs.files[k]].content = heap[files[k]].content
                  /\ r.fs.heap[r.fs.files[k]].path = heap[files[k]].path
                  /\ \A i \in 1..Len(heap[files[k]].children) :
                       LET e == heap[files[k]].children[i] IN
                       e.id # getNode(Fs, o) =>
                         mapGet(r.fs.heap[r.fs.files[k]].children, e.name) = e.id

\* C3: rename returns false and leaves the whole tree as it was whenever a
\* normalized path is the root, the source does not exist or the destination
\* exists.
C3_RenameRejects ==
  \A o \in AnyPaths, n \in AnyPaths :
    (\/ normalizePath(o) = ROOT
     \/ normalizePath(n) = ROOT
     \/ ~exists(Fs, o)
     \/ exists(Fs, n)) =>
      \A r \in {rename(Fs, o, n)} : r.ret = FALSE /\ ~r.raised /\ r.fs = Fs

\* a tree that holds /a and /b and nothing at /a/b: rename of /a onto /b
\* leaves by its test for the destination, rename of the missing /a/b by its
\* test for the source, and rename of the root by its test for the root
C3_Witness ==
  /\ exists(Fs, <<"/", "a">>)
  /\ exists(Fs, <<"/", "b">>)
  /\ ~exists(Fs, <<"/", "a", "/", "b">>)
  /\ \A r \in {rename(Fs, <<"/", "a">>, <<"/", "b">>)} :
       r.at = "destination exists" /\ r.ret = FALSE /\ r.fs = Fs
  /\ \A r \in {rename(Fs, <<"/", "a", "/", "b">>, <<"/", "b">>)} :
       r.at = "no source" /\ r.ret = FALSE /\ r.fs = Fs
  /\ \A r \in {rename(Fs, ROOT, <<"/", "a", "/", "b">>)} :
       r.at = "root" /\ r.ret = FALSE /\ r.fs = Fs

\* C4: deleteFile returns false and changes nothing for the root and for a
\* missing path; otherwise it returns true, afterwards neither the path nor
\* any path below it is in the flat table or among any directory's children,
\* and every node outside the deleted subtree is unchanged.
C4_DeleteRemovesSubtree ==
  \A p \in AnyPaths :
    \A r \in {deleteFile(Fs, p)} :
      LET target == normalizePath(p) IN
      IF target = ROOT \/ ~exists(Fs, p)
      THEN r.ret = FALSE /\ r.fs = Fs
      ELSE
        /\ r.ret = TRUE
        /\ \A k \in DOMAIN r.fs.files :
             /\ ~isBelow(k, target)
             /\ \A i \in 1..Len(r.fs.heap[r.fs.files[k]].children) :
                  ~isBelow(r.fs.heap[r.fs.heap[r.fs.files[k]].children[i].id].path, target)
        /\ \A k \in DOMAIN files :
             ~isBelow(k, target) =>
               /\ k \in DOMAIN r.fs.files
               /\ r.fs.files[k] = files[k]
               /\ r.fs.heap[files[k]].type = heap[files[k]].type
               /\ r.fs.heap[files[k]].content = heap[files[k]].content
               /\ r.fs.heap[files[k]].path = heap[files[k]].path
               /\ \A i \in 1..Len(heap[files[k]].children) :
                    LET e == heap[files[k]].children[i] IN
                    ~isBelow(heap[e.id].path, target) =>
                      mapGet(r.fs.heap[files[k]].children, e.name) = e.id

\* C6: createFile on a path that does not exist and whose existing ancestors
\* are directories returns the created file node, every ancestor directory
\* exists afterwards, readFile of the path returns the content, and no node
\* that existed before is changed.
C6_CreateFileCreates ==
  \A p \in InPaths, c \in Contents :
    (/\ ~exists(Fs, p)
     /\ \A a \in ancestors(normalizePath(p)) :
          exists(Fs, a) => heap[getNode(Fs, a)].type = "directory") =>
      \A r \in {createFile(Fs, p, c)} :
        /\ r.ret # NULL
        /\ getNode(r.fs, p) = r.ret
        /\ r.fs.heap[r.ret].type = "file"
        /\ \A a \in ancestors(normalizePath(p)) :
             exists(r.fs, a) /\ r.fs.heap[getNode(r.fs, a)].type = "directory"
        /\ readFile(r.fs, p) = c
        /\ \A k \in DOMAIN files : isPreserved(Fs, r.fs, k)

\* C7: createFile and createDirectory on a path that exists return null and
\* leave the tree as it was; the existing file keeps its content.
C7_CreateOnExistingPath ==
  \A p \in AnyPaths :
    exists(Fs, p) =>
      /\ \A c \in Contents :
           \A r \in {createFile(Fs, p, c)} :
             r.ret = NULL /\ r.fs = Fs /\ readFile(r.fs, p) = readFile(Fs, p)
      /\ \A r \in {createDirectory(Fs, p)} : r.ret = NULL /\ r.fs = Fs

\* a tree that holds a file with content and a directory besides the root:
\* createFile with another content on the file's path and createDirectory on
\* the directory's path leave by their tests for an existing path, and the
\* file keeps its content
C7_Witness ==
  \E k \in InPaths, d \in InPaths :
    /\ exists(Fs, k) /\ heap[getNode(Fs, k)].type = "file"
    /\ readFile(Fs, k) = <<"x">>
    /\ exists(Fs, d) /\ d # ROOT /\ heap[getNode(Fs, d)].type = "directory"
    /\ \A r \in {createFile(Fs, k, <<>>)} :
         r.at = "exists" /\ r.ret = NULL /\ readFile(r.fs, k) = <<"x">>
    /\ \A r \in {createDirectory(Fs, d)} : r.at = "exists" /\ r.ret = NULL

\* C8 as stated: createDirectory on a path that does not exist creates every
\* missing ancestor directory and the directory, and returns the created node.
C8_CreatesMissingAncestors ==
  \A p \in InPaths :
    (/\ ~exists(Fs, p)
     /\ \A a \in ancestors(normalizePath(p)) :
          exists(Fs, a) => heap[getNode(Fs, a)].type = "directory") =>
      \A r \in {createDirectory(Fs, p)} :
        /\ r.ret # NULL
        /\ getNode(r.fs, p) = r.ret
        /\ \A a \in ancestors(normalizePath(p)) : exists(r.fs, a)

\* C8 amended: createDirectory on a path that does not exist creates the
\* directory and returns the created node exactly when the parent of the
\* normalized path is a directory of the table; it creates no ancestor, and
\* when the parent is missing or is a file it returns null and leaves the
\* tree as it was.
C8_CreatesOnlyUnderExistingParent ==
  \A p \in InPaths :
    ~exists(Fs, p) =>
      \A r \in {createDirectory(Fs, p)} :
        LET parent == getParentNode(Fs, normalizePath(p)) IN
        IF parent # NULL /\ heap[parent].type = "directory"
        THEN /\ r.ret # NULL
             /\ getNode(r.fs, p) = r.ret
             /\ r.fs.heap[r.ret].type = "directory"
             /\ r.fs.heap[r.ret].children = <<>>
             /\ DOMAIN r.fs.files = DOMAIN files \cup {normalizePath(p)}
        ELSE r.ret = NULL /\ r.fs = Fs

\* a tree that holds a directory /b and nothing at /a: createDirectory of
\* /a/b returns null because the parent is missing and creates nothing, and
\* createDirectory of /a, whose parent is the root, creates it
C8_Witness ==
  /\ exists(Fs, <<"/", "b">>) /\ heap[getNode(Fs, <<"/", "b">>)].type = "directory"
  /\ ~exists(Fs, <<"/", "a">>)
  /\ \A r \in {createDirectory(Fs, <<"/", "a", "/", "b">>)} :
       r.at = "no parent" /\ r.ret = NULL /\ r.fs = Fs
  /\ \A r \in {createDirectory(Fs, <<"/", "a">>)} : r.at = "created" /\ r.ret # NULL

\* s with every occurrence of old, found left to right without overlap,
\* replaced by new
RECURSIVE replaceAll(_, _, _)
replaceAll(s, old, new) ==
  IF Len(s) < Len(old) THEN s
  ELSE IF startsWith(s, old)
  THEN new \o replaceAll(SubSeq(s, Len(old) + 1, Len(s)), old, new)
  ELSE <<s[1]>> \o replaceAll(Tail(s), old, new)

\* the number of occurrences of old in s, found left to right without overlap
RECURSIVE occurrencesOf(_, _)
occurrencesOf(s, old) ==
  IF Len(s) < Len(old) THEN 0
  ELSE IF startsWith(s, old)
  THEN 1 + occurrencesOf(SubSeq(s, Len(old) + 1, Len(s)), old)
  ELSE occurrencesOf(Tail(s), old)

\* C11: when replaceInFile succeeds, the new content is the old content with
\* every non-overlapping left-to-right occurrence of the old text, matched
\* character by character, replaced by the new text, and the reported number
\* is the number of occurrences replaced.
C11_ReplacesEveryOccurrence ==
  \A o \in TextOld, n \in TextNew :
    \A r \in {replaceInFile(Fs, TextFile, o, n)} :
      r.ret.msg = "Replaced" =>
        /\ readFile(r.fs, TextFile) = replaceAll(readFile(Fs, TextFile), o, n)
        /\ r.ret.n = occurrencesOf(readFile(Fs, TextFile), o)
        /\ r.ret.n >= 1

\* the file holds ".x.", and replacing "." by "x" reports two occurrences and
\* leaves "xxx"
C11_Witness ==
  /\ readFile(Fs, TextFile) = <<".", "x", ".">>
  /\ \A r \in {replaceInFile(Fs, TextFile, <<".">>, <<"x">>)} :
       /\ r.ret.msg = "Replaced"
       /\ r.ret.n = 2
       /\ readFile(r.fs, TextFile) = <<"x", "x", "x">>

\* C12: whenever createFileWithParents returns the success string, the path
\* is afterwards a file with the given content and all its ancestors are
\* directories; whenever the file was not created, an error string is
\* returned.
C12_CreatedWhenReported ==
  \A p \in InPaths, c \in Contents :
    \A r \in {createFileWithParents(Fs, p, c)} :
      LET created == /\ exists(r.fs, p)
                     /\ r.fs.heap[getNode(r.fs, p)].type = "file"
                     /\ readFile(r.fs, p) = c
                     /\ \A a \in ancestors(normalizePath(p)) :
                          exists(r.fs, a) /\ r.fs.heap[getNode(r.fs, a)].type = "directory"
      IN IF r.ret.msg = "File created"
         THEN created
         ELSE r.ret.msg = "Error: File already exists"

\* the file of the text editor specification exists, as a file
TextFileExists ==
  exists(Fs, TextFile) /\ heap[getNode(Fs, TextFile)].type = "file"

\* C13 as stated: insertInFile on an existing file succeeds exactly when
\* 0 <= lineIndex <= lineCount; on success the lines of the new content are
\* the old lines with the text as one new element at lineIndex; otherwise an
\* error string is returned and the content is unchanged.
C13_InsertsOneLine ==
  TextFileExists =>
    \A i \in TextLines, t \in TextNew :
      \A r \in {insertInFile(Fs, TextFile, i, t)} :
        LET lines == split(readFile(Fs, TextFile), <<NL>>) IN
        IF 0 <= i /\ i <= Len(lines)
        THEN /\ r.ret.msg = "Text inserted"
             /\ split(readFile(r.fs, TextFile), <<NL>>) =
                  SubSeq(lines, 1, i) \o <<t>> \o SubSeq(lines, i + 1, Len(lines))
        ELSE /\ r.ret.msg = "Error: Invalid line number"
             /\ r.fs = Fs

\* C13 amended: as above, but on success the lines of the new content are the
\* old lines with the lines of the text inserted at lineIndex (one line for
\* a text without a newline, several for a text with newlines).
C13_InsertsLinesOfText ==
  TextFileExists =>
    \A i \in TextLines, t \in TextNew :
      \A r \in {insertInFile(Fs, TextFile, i, t)} :
        LET lines == split(readFile(Fs, TextFile), <<NL>>) IN
        IF 0 <= i /\ i <= Len(lines)
        THEN /\ r.ret.msg = "Text inserted"
             /\ split(readFile(r.fs, TextFile), <<NL>>) =
                  SubSeq(lines, 1, i) \o split(t, <<NL>>) \o SubSeq(lines, i + 1, Len(lines))
        ELSE /\ r.ret.msg = "Error: Invalid line number"
             /\ r.fs = Fs

\* the file holds the two lines "x" and ".": line numbers 0 and 2 prepend and
\* append, a text with a newline adds two lines, and 3 and -1 are refused
C13_Witness ==
  /\ readFile(Fs, TextFile) = <<"x", NL, ".">>
  /\ readFile(insertInFile(Fs, TextFile, 0, <<"x", ".">>).fs, TextFile)
       = <<"x", ".", NL, "x", NL, ".">>
  /\ readFile(insertInFile(Fs, TextFile, 2, <<"x", ".">>).fs, TextFile)
       = <<"x", NL, ".", NL, "x", ".">>
  /\ readFile(insertInFile(Fs, TextFile, 1, <<NL>>).fs, TextFile)
       = <<"x", NL, NL, NL, ".">>
  /\ insertInFile(Fs, TextFile, 3, <<"x">>).ret.msg = "Error: Invalid line number"
  /\ insertInFile(Fs, TextFile, -1, <<"x">>).ret.msg = "Error: Invalid line number"

\* C14: a text-edit command that returns an error string leaves the whole
\* tree unchanged, and returns one in each of these cases: replaceInFile when
\* the file is missing, is a directory, or the old text is empty or absent;
\* insertInFile when the file is missing or is a directory;
\* createFileWithParents when the path exists.
C14_ErrorsChangeNothing ==
  \A p \in InPaths :
    LET missing == ~exists(Fs, p)
        directory == exists(Fs, p) /\ heap[getNode(Fs, p)].type = "directory"
    IN
    /\ \A o \in OldTexts, n \in NewTexts :
         \A r \in {replaceInFile(Fs, p, o, n)} :
           /\ missing => r.ret.msg = "Error: File not found"
           /\ directory => r.ret.msg = "Error: Cannot edit a directory"
           /\ (~missing /\ ~directory /\ (o = <<>> \/ ~includes(readFile(Fs, p), o)))
                => r.ret.msg = "Error: String not found in file"
           /\ r.ret.msg # "Replaced" => r.fs = Fs
    /\ \A i \in InsertLines, t \in NewTexts :
         \A r \in {insertInFile(Fs, p, i, t)} :
           /\ missing => r.ret.msg = "Error: File not found"
           /\ directory => r.ret.msg = "Error: Cannot edit a directory"
           /\ r.ret.msg # "Text inserted" => r.fs = Fs
    /\ \A c \in Contents :
         \A r \in {createFileWithParents(Fs, p, c)} :
           /\ exists(Fs, p) => r.ret.msg = "Error: File already exists"
           /\ r.ret.msg # "File created" => r.fs = Fs

\* a tree that holds a directory /a and a file /b with content "x" and
\* nothing at /a/b: each command returns each of its error strings
C14_Witness ==
  /\ exists(Fs, <<"/", "a">>) /\ heap[getNode(Fs, <<"/", "a">>)].type = "directory"
  /\ readFile(Fs, <<"/", "b">>) = <<"x">>
  /\ ~exists(Fs, <<"/", "a", "/", "b">>)
  /\ replaceInFile(Fs, <<"/", "a", "/", "b">>, <<"x">>, <<>>).ret.msg = "Error: File not found"
  /\ replaceInFile(Fs, <<"/", "a">>, <<"x">>, <<>>).ret.msg = "Error: Cannot edit a directory"
  /\ replaceInFile(Fs, <<"/", "b">>, <<NL>>, <<>>).ret.msg = "Error: String not found in file"
  /\ insertInFile(Fs, <<"/", "a", "/", "b">>, 0, <<>>).ret.msg = "Error: File not found"
  /\ insertInFile(Fs, <<"/", "a">>, 0, <<>>).ret.msg = "Error: Cannot edit a directory"
  /\ createFileWithParents(Fs, <<"/", "b">>, <<>>).ret.msg = "Error: File already exists"

\* C15: for a file with L lines and a range [start, end], viewFile returns
\* exactly the lines whose 1-based number i satisfies
\* max(1, start) <= i <= (end = -1 ? L : min(L, end)), in order, each prefixed
\* with its number and a tab; so a range whose end is 0 or negative other than
\* -1, or whose start exceeds its end, yields no lines.
C15_ViewRange ==
  TextFileExists =>
    \A start \in TextLines, end \in TextLines :
      \A r \in {viewFile(Fs, TextFile, <<start, end>>)} :
        LET lines == split(readFile(Fs, TextFile), <<NL>>)
            lo == max(1, start)
            hi == IF end = -1 THEN Len(lines) ELSE min(Len(lines), end)
            wanted == [k \in 1..max(0, hi - lo + 1) |->
                         toString(lo + k - 1) \o <<TAB>> \o lines[lo + k - 1]]
        IN /\ r.msg = "content"
           /\ r.text = join(wanted, <<NL>>)

\* the instances a snapshot is loaded into: a new one, the instance the
\* snapshot was taken from, and one that holds a file /b and a directory /a
Targets ==
  {EmptyFs, Fs, createDirectory(createFile(EmptyFs, <<"/", "b">>, <<"x">>).fs, <<"/", "a">>).fs}

\* C16: for every reachable tree, deserializeFromNodes(serialize()) applied
\* to any instance yields a tree with the same set of paths, the same type at
\* each path and the same content of each file; the descriptors of
\* directories carry no content and no children; and no node of the target
\* instance survives unless it is in the data.
C16_SnapshotRoundTrip ==
  \A target \in Targets :
    \A data \in {serialize(Fs)} :
      \A r \in {deserializeFromNodes(target, data)} :
        /\ DOMAIN r.files = DOMAIN files
        /\ \A k \in DOMAIN files :
             k \in DOMAIN r.files =>
               /\ r.heap[r.files[k]].type = heap[files[k]].type
               /\ heap[files[k]].type = "file" =>
                    r.heap[r.files[k]].content = heap[files[k]].content
               /\ heap[files[k]].type = "directory" =>
                    DOMAIN data[k] = {"type", "name", "path"}
        /\ \A k \in DOMAIN r.files :
             \A i \in 1..Len(r.heap[r.files[k]].children) :
               r.heap[r.heap[r.files[k]].children[i].id].path \in DOMAIN files

\* the paths of the script files of the snapshot that Babel fails on (bad)
\* or compiles
scriptsOf(snapshot, bad) ==
  {snapshot[i].path : i \in {j \in 1..Len(snapshot) :
       /\ isScript(snapshot[j].path)
       /\ (snapshot[j].content.error # "") = bad}}

\* C17: createImportMap returns exactly one error entry {path, error} for
\* each script file that fails to compile, carrying Babel's message, and no
\* other entry; every script file that compiles is a key of the resolution
\* map under its absolute path, whatever other files fail.  So a snapshot of
\* N script files of which one fails yields one error and N-1 registered.
C17_OneErrorPerFailingFile ==
  out.op = "createImportMap" =>
    LET errors == out.ret.errors
        imports == out.ret.importMap.imports
        failed == scriptsOf(out.files, TRUE) IN
    /\ {errors[i].path : i \in 1..Len(errors)} = failed
    /\ Len(errors) = Cardinality(failed)
    /\ \A i \in 1..Len(errors) : errors[i].error = SyntaxError
    /\ \A p \in scriptsOf(out.files, FALSE) : objHas(imports, p)

\* a snapshot of two script files, the first of which fails: one error, and
\* the second file is registered
C17_Witness ==
  /\ out.op = "createImportMap"
  /\ Len(out.files) = 2
  /\ Cardinality(scriptsOf(out.files, TRUE)) = 1
  /\ Cardinality(scriptsOf(out.files, FALSE)) = 1
  /\ out.files[1].content.error # ""
  /\ Len(out.ret.errors) = 1
  /\ objHas(out.ret.importMap.imports, out.files[2].path)

\* the keys of the map that spell one of the paths
keysOfAll(paths) == UNION {{keysOf(p)[i] : i \in 1..Len(keysOf(p))} : p \in paths}

\* C18: no specifier key derived from a script file that fails to compile
\* (its absolute path, the path without the leading slash, the '@/' alias,
\* and each of these without the extension) is a key of the resolution map,
\* also when other files import the file under one of these spellings.
C18_FailedFileHasNoKey ==
  out.op = "createImportMap" =>
    \A k \in keysOfAll(scriptsOf(out.files, TRUE)) :
      ~objHas(out.ret.importMap.imports, k)

\* the local import specifiers (starting with '.', '/' or '@/') that
\* transformJSX collects from the script files of the snapshot that compile
localImportsOf(snapshot) ==
  UNION {{snapshot[i].content.imports[j] :
            j \in {k \in 1..Len(snapshot[i].content.imports) :
                     /\ ~isPackage(snapshot[i].content.imports[k])
                     /\ ~endsWith(snapshot[i].content.imports[k], EXT_CSS)}} :
         i \in {k \in 1..Len(snapshot) :
                  isScript(snapshot[k].path) /\ snapshot[k].content.error = ""}}

\* C19: every local import specifier collected from a file that compiles is
\* a key of the resolution map, bound to a compiled file or to a
\* placeholder, also when the specifier matches a file of the snapshot that
\* failed to compile or is no script.
C19_LocalImportsResolve ==
  out.op = "createImportMap" =>
    \A s \in localImportsOf(out.files) :
      /\ objHas(out.ret.importMap.imports, s)
      /\ out.ret.importMap.imports[s].scheme = "blob"

\* C20: for each script file that compiles, at path P, the resolution map
\* binds P, P without the leading slash, '@' + P, and each of these with the
\* script extension stripped, all to the reference P itself is bound to,
\* whatever other files the snapshot holds.
C20_SpellingsShareReference ==
  out.op = "createImportMap" =>
    LET imports == out.ret.importMap.imports IN
    \A p \in scriptsOf(out.files, FALSE) :
      /\ objHas(imports, p)
      /\ \A k \in {p, substring(p, 1), <<"@">> \o p,
                   withoutExt(p), substring(withoutExt(p), 1),
                   <<"@">> \o withoutExt(p)} :
           objHas(imports, k) /\ imports[k] = imports[p]

\* C21: after createImportMap on any snapshot the pre-registered core names
\* react, react-dom, react-dom/client, react/jsx-runtime and
\* react/jsx-dev-runtime are still bound to their pre-registered,
\* version-pinned targets, even when files import those names.
C21_CoreNamesStayPinned ==
  out.op = "createImportMap" =>
    \A k \in DOMAIN coreImports :
      /\ objHas(out.ret.importMap.imports, k)
      /\ out.ret.importMap.imports[k] = coreImports[k]

\* the directory of a file: its path up to the last slash ("" for a file of
\* the root, and for the root)
dirOf(path) == SubSeq(path, 1, lastIndexOf(path, "/") - 1)

\* the path that a stylesheet specifier './X', '../X' or '@/X' imported by
\* the file `from` denotes
denotedBy(from, specifier) ==
  IF startsWith(specifier, AT_SLASH) THEN <<"/">> \o substring(specifier, 2)
  ELSE IF startsWith(specifier, <<".", "/">>)
  THEN dirOf(from) \o <<"/">> \o substring(specifier, 2)
  ELSE dirOf(dirOf(from)) \o <<"/">> \o substring(specifier, 3)

\* the stylesheet imports {from, cssPath} of the script files that compile
cssImportsOf(snapshot) ==
  UNION {{[from |-> snapshot[i].path, cssPath |-> snapshot[i].content.cssImports[j]] :
            j \in 1..Len(snapshot[i].content.cssImports)} :
         i \in {k \in 1..Len(snapshot) :
                  isScript(snapshot[k].path) /\ snapshot[k].content.error = ""}}

\* C22: the stylesheet blob returned by createImportMap contains the text of
\* every .css file of the snapshot exactly once, each prefixed by a comment
\* naming its path, whether or not it is imported; for every stylesheet
\* import of a file that compiles, resolved against the importing file's
\* directory ('./', '../') or the root ('@/'), a "not found" marker is
\* appended exactly when the resolved path is not a file of the snapshot: the
\* blob holds as many markers for a specifier as there are imports of it
\* that resolve to no file.
C22_StylesheetBlob ==
  out.op = "createImportMap" =>
    LET styles == out.ret.styles
        paths == {out.files[i].path : i \in 1..Len(out.files)} IN
    /\ \A i \in 1..Len(out.files) :
         endsWith(out.files[i].path, EXT_CSS) =>
           occurrencesOf(styles,
             <<"/", "*", " ">> \o out.files[i].path \o <<" ", "*", "/", NL>>
               \o out.files[i].content.text) = 1
    /\ \A c \in CssSpecifiers :
         occurrencesOf(styles, <<"/", "*", " ">> \o c
              \o <<" ", "n", "o", "t", " ", "f", "o", "u", "n", "d", " ", "*", "/">>)
           = Cardinality({m \in cssImportsOf(out.files) :
                            m.cssPath = c /\ denotedBy(m.from, c) \notin paths})

\* a file in directory /d imports './a.css', /d/a.css is in the snapshot and
\* /a.css is not: the blob is the stylesheet, with no marker
C22_Witness ==
  /\ out.op = "createImportMap"
  /\ Len(out.files) = 2
  /\ out.files[1].path = <<"/", "d", "/", "b", ".", "t", "s", "x">>
  /\ out.files[1].content.cssImports = <<<<".", "/", "a", ".", "c", "s", "s">>>>
  /\ out.files[2].path = <<"/", "d", "/", "a", ".", "c", "s", "s">>
  /\ out.ret.styles = styleOf(out.files[2].path, CssText)

\* the bootstrap loader, the error listing and an item of it
LoaderElement == tag("script type=\"module\"")

ListingElement == tag("div class=\"syntax-errors\"")

ItemElement == tag("div class=\"error-item\"")

\* the heading of a listing of n errors
headingOf(n) ==
  <<"Syntax Error">> \o (IF n > 1 THEN <<"s">> ELSE <<>>)
    \o <<" ", "(">> \o toString(n) \o <<")">>

\* the indices at which the document holds the pieces of text sub
placesOf(document, sub) ==
  {i \in 1..(Len(document) - Len(sub) + 1) :
     SubSeq(document, i, i + Len(sub) - 1) = sub}

\* C23: for every input of createPreviewHTML: if errors is empty the document
\* contains the bootstrap loader script (loadApp) and no error-listing
\* element; if errors is non-empty the document contains an error listing
\* with one item per error whose displayed count is errors.length, and no
\* bootstrap loader.
C23_LoaderOrListing ==
  out.op = "createPreviewHTML" =>
    LET n == Len(out.errors) IN
    IF n = 0
    THEN /\ placesOf(out.ret, LoaderElement) # {}
         /\ placesOf(out.ret, <<"loadApp()", ";">>) # {}
         /\ placesOf(out.ret, ListingElement) = {}
    ELSE /\ placesOf(out.ret, ListingElement) # {}
         /\ placesOf(out.ret, headingOf(n)) # {}
         /\ Cardinality(placesOf(out.ret, ItemElement)) = n
         /\ placesOf(out.ret, LoaderElement) = {}
         /\ placesOf(out.ret, <<"loadApp()">>) = {}

\* the reference, a string, that the map text binds the specifier to: the
\* text parses to an object whose imports is an object with the key bound
\* to a string; NOSTRING when there is none
boundTo(importMap, specifier) ==
  LET p == JSONparse(importMap) IN
  IF /\ p.ok
     /\ p.val.type = "object"
     /\ objHas(p.val.members, IMPORTS)
     /\ p.val.members[IMPORTS].type = "object"
     /\ objHas(p.val.members[IMPORTS].members, specifier)
     /\ p.val.members[IMPORTS].members[specifier].type = "string"
  THEN p.val.members[IMPORTS].members[specifier].s
  ELSE NOSTRING

\* the statement of the loader that loads the module at url
importOf(url) == <<"const module = await import('">> \o url \o <<"');">>

\* C24: createPreviewHTML loads the entry through the reference that the
\* resolution map binds to the entry specifier when the map text parses and
\* has that key; otherwise (key absent, or map text malformed) it falls back
\* to the bare entry specifier; in every case it returns a document.
C24_EntryResolution ==
  out.op = "createPreviewHTML" =>
    LET url == boundTo(out.importMap, out.entryPoint) IN
    /\ SubSeq(out.ret, 1, 1) = <<"<!DOCTYPE html>">>
    /\ SubSeq(out.ret, Len(out.ret) - 2, Len(out.ret)) = tag("/html")
    /\ out.errors = <<>> =>
         /\ Cardinality(placesOf(out.ret, <<"const module = await import('">>)) = 1
         /\ placesOf(out.ret,
              importOf(IF url = NOSTRING THEN out.entryPoint ELSE url)) # {}

\* the map binds /a to blob:1 and the entry /a is loaded through blob:1
C24_Witness ==
  /\ out.op = "createPreviewHTML"
  /\ out.errors = <<>>
  /\ out.entryPoint = <<"/", "a">>
  /\ boundTo(out.importMap, out.entryPoint) = <<"b", "l", "o", "b", ":", "1">>
  /\ placesOf(out.ret, importOf(<<"b", "l", "o", "b", ":", "1">>)) # {}

SubtreePaths ==
  {<<"/", "a", "/", "b">>, <<"/", "a", "/", "b", "/", "c">>,
   <<"/", "b", "/", "a">>, <<"/", "b", "/", "a", "/", "c">>}

\* C26: rename(oldPath, newPath) where oldPath is an existing directory and
\* newPath lies strictly inside oldPath's own subtree, with or without
\* intermediate directories that must be created, is rejected: it returns
\* false and leaves the tree unchanged.
C26_RenameIntoOwnSubtree ==
  \A o \in {<<"/", "a">>, <<"/", "b">>}, n \in SubtreePaths :
    (/\ exists(Fs, o)
     /\ heap[getNode(Fs, o)].type = "directory"
     /\ startsWith(normalizePath(n), normalizePath(o) \o <<SLASH>>)) =>
      \A r \in {rename(Fs, o, n)} : r.ret = FALSE /\ ~r.raised /\ r.fs = Fs

\* the paths that the relative specifier './X' or '../X' imported by the
\* file `from` denotes, with a script extension appended
scriptsDenotedBy(from, specifier) ==
  {denotedBy(from, specifier) \o ext : ext \in {EXT_JS, EXT_JSX, EXT_TS, EXT_TSX}}

\* the relative imports {from, specifier} of the script files that compile
relativeImportsOf(snapshot) ==
  UNION {{[from |-> snapshot[i].path, specifier |-> snapshot[i].content.imports[j]] :
            j \in {k \in 1..Len(snapshot[i].content.imports) :
                     \/ startsWith(snapshot[i].content.imports[k], <<".", "/">>)
                     \/ startsWith(snapshot[i].content.imports[k], <<".", ".", "/">>)}} :
         i \in {k \in 1..Len(snapshot) :
                  isScript(snapshot[k].path) /\ snapshot[k].content.error = ""}}

\* C27: when a file that compiles, in directory D, imports a relative
\* specifier './X' or '../X' and the snapshot has a file that compiles at the
\* path the specifier denotes from D with a script extension appended, the
\* resolution map binds the specifier to that file's compiled reference and
\* not to a placeholder.
C27_RelativeImportResolves ==
  out.op = "createImportMap" =>
    LET imports == out.ret.importMap.imports IN
    \A m \in relativeImportsOf(out.files) :
      \A p \in scriptsDenotedBy(m.from, m.specifier) \cap scriptsOf(out.files, FALSE) :
        /\ objHas(imports, m.specifier)
        /\ imports[m.specifier].of[1] = "compiled"
        /\ \E q \in scriptsDenotedBy(m.from, m.specifier) \cap scriptsOf(out.files, FALSE) :
             imports[m.specifier] = imports[q]

\* the orders of the entries of a snapshot
ordersOf(snapshot) ==
  {[i \in 1..Len(snapshot) |-> snapshot[f[i]]] :
     f \in {g \in [1..Len(snapshot) -> 1..Len(snapshot)] :
              \A i, j \in 1..Len(snapshot) : g[i] = g[j] => i = j}}

\* the kind of target of a URL: the compiled module of a file, the
\* placeholder of a component, or an external URL
targetOf(url) == <<url.scheme, url.of>>

\* C28: the resolution map does not depend on the iteration order of the
\* snapshot: for the same entries in another order createImportMap returns a
\* map with the same keys, each bound to the same kind of target, also when a
\* package specifier equals the stripped spelling of a file or when two files
\* differ in extension only.
C28_OrderIndependent ==
  out.op = "createImportMap" =>
    \A other \in ordersOf(out.files) :
      LET imports == out.ret.importMap.imports
          otherImports == createImportMap(other, 0).importMap.imports IN
      /\ DOMAIN otherImports = DOMAIN imports
      /\ \A k \in DOMAIN imports : targetOf(otherImports[k]) = targetOf(imports[k])

\* the entry point a refresh in the render with entry point `current` has to
\* use on a snapshot: the current one while it is a file of the snapshot,
\* else the first possible entry that is, else the first .jsx or .tsx file;
\* NOSTRING when there is none
entryFor(current, snapshot) ==
  LET paths == [i \in 1..Len(snapshot) |-> snapshot[i].path]
      present(p) == \E i \in 1..Len(paths) : paths[i] = p
      candidates == {k \in 1..Len(possibleEntries) : present(possibleEntries[k])}
      components == {i \in 1..Len(paths) :
                       \/ endsWith(paths[i], EXT_JSX)
                       \/ endsWith(paths[i], EXT_TSX)} IN
  IF present(current) THEN current
  ELSE IF candidates # {}
  THEN possibleEntries[CHOOSE k \in candidates : \A l \in candidates : k <= l]
  ELSE IF components # {}
  THEN paths[CHOOSE i \in components : \A j \in components : i <= j]
  ELSE NOSTRING

\* the document of a snapshot with an entry point
documentOf(entryPoint, snapshot) ==
  LET r == createImportMap(snapshot, 0) IN
  createPreviewHTML(entryPoint, JSONstringify(r.importMap), r.styles,
    [i \in 1..Len(r.errors) |->
       [path |-> r.errors[i].path, error |-> <<r.errors[i].error>>]])

\* C29: a refresh that sees a non-empty snapshot builds the document only
\* with an entry point that is a file of the snapshot: the current entry
\* point while it is in the snapshot, else the first present possible entry,
\* else the first .jsx/.tsx file of the snapshot; when there is no such file
\* it builds no document and shows the 'No React component found' error.
C29_EntryPointIsAFile ==
  (out.op = "updatePreview" /\ Len(out.files) > 0) =>
    LET entry == entryFor(out.before.entryPoint, out.files) IN
    IF entry = NOSTRING
    THEN /\ out.previewHTML = NoDocument
         /\ out.srcdoc = NoDocument
         /\ out.error = NoComponent
    ELSE /\ snapshotHas(out.files, entry)
         /\ out.entryPoint = entry
         /\ out.previewHTML = documentOf(entry, out.files)
         /\ out.srcdoc \in {NoDocument, out.previewHTML}

\* a refresh whose entry point is no longer in the snapshot and that falls
\* back on the first .tsx file, and the document reaches the iframe
C29_Witness ==
  /\ out.op = "updatePreview"
  /\ ~snapshotHas(out.files, out.before.entryPoint)
  /\ out.entryPoint = <<"/", "b", ".", "t", "s", "x">>
  /\ out.files[1].path = <<"/", "a", ".", "c", "s", "s">>
  /\ out.srcdoc # NoDocument
  /\ out.srcdoc = out.previewHTML

\* C30: over any sequence of refreshes, the welcome state 'firstLoad' is shown
\* only while no refresh has seen a non-empty snapshot; once one has, a
\* refresh that sees an empty snapshot shows 'No files to preview' and never
\* the welcome state; and a refresh that builds a document clears the error.
C30_WelcomeOnlyBeforeFirstFiles ==
  [][out'.op = "updatePreview" =>
       /\ out'.error = FirstLoad => ~out'.seen
       /\ (out.op = "updatePreview" /\ out.seen /\ Len(out'.files) = 0) =>
            out'.error = NoFiles
       /\ out'.previewHTML # NoDocument => out'.error = NoError]_vars

\* after a refresh that saw files, a refresh sees none and the component
\* shows 'No files to preview'
C30_Witness ==
  /\ out.op = "updatePreview"
  /\ out.seen
  /\ Len(out.files) = 0
  /\ out.before.error = NoError
  /\ ~out.before.isFirstLoad
  /\ out.error = NoFiles

====
